---- MODULE Spec2Model ----
(***************************************************************************)
(* A model of frog-proxy: the forward-request pipeline of ServeHTTP        *)
(* (proxy.go), the handler registry and its condition wrappers             *)
(* (dispatcher.go, actions.go) and the CONNECT engine handleHttps with its *)
(* splice relay (https.go).                                                *)
(*                                                                         *)
(* Strings that the code inspects (hosts, bodies, wire text) are sequences *)
(* of tokens, so that appending ":80" or matching `:\d+$` is computed.     *)
(* Go's nil is the record Nil; a nil error is the empty text NoError.      *)
(***************************************************************************)
EXTENDS Integers, Sequences, FiniteSets, TLC

\* ------------------------------------------------------------------ bounds
\* Registrations (OnRequest/OnResponse/HandleConnect calls) made before serving.
MaxHandlers == 2
\* Requests served one after the other by one server.
MaxSessions == 2
\* Bytes each tunnel peer sends after the tunnel is established.
MaxBytes == 2

\* ------------------------------------------------------------- basic values
Nil == [nil |-> TRUE]
NoError == ""

StatusForbidden == 403
StatusInternalServerError == 500
ContentTypeText == "text/plain"

Reddit == <<"www.reddit.com">>
Example == <<"example.com">>

StatusText(code) ==
    CASE code = 200 -> "OK"
      [] code = 403 -> "Forbidden"
      [] code = 500 -> "Internal Server Error"
      [] OTHER -> ""

\* ---------------------------------------------------------------- http.Header
\* A header is a function from the keys present to their lists of values.
EmptyHeader == [k \in {} |-> <<>>]

HeaderDel(h, k) == [x \in (DOMAIN h) \ {k} |-> h[x]]

HeaderAdd(h, k, v) ==
    [x \in (DOMAIN h) \cup {k} |->
        IF x = k
        THEN (IF k \in DOMAIN h THEN Append(h[k], v) ELSE <<v>>)
        ELSE h[x]]

HeaderSet(h, k, v) == [x \in (DOMAIN h) \cup {k} |-> IF x = k THEN <<v>> ELSE h[x]]

HeaderGet(h, k) == IF k \in DOMAIN h /\ Len(h[k]) > 0 THEN h[k][1] ELSE ""

\* copyHeaders: unless the destination's headers are kept they are all deleted,
\* then every value of every source key is added.
copyHeaders(dst, src, keepDestHeaders) ==
    LET base == IF keepDestHeaders THEN dst ELSE EmptyHeader
    IN [k \in (DOMAIN base) \cup (DOMAIN src) |->
           (IF k \in DOMAIN base THEN base[k] ELSE <<>>)
           \o (IF k \in DOMAIN src THEN src[k] ELSE <<>>)]

\* ------------------------------------------------------ requests, responses
\* (C6 mutant: every URL passes for absolute.)
IsAbs_Always(url) == TRUE

\* url.URL.IsAbs: the URL has a scheme.
IsAbs(url) == url.Scheme # ""

MkRequest(method, scheme, urlHost, path, hostHeader) ==
    [Method |-> method,
     URL |-> [Scheme |-> scheme, Host |-> urlHost, Path |-> path],
     Host |-> hostHeader,
     TransferEncoding |-> <<>>]

\* NewResponse(r, contentType, status, body); id names the body reader it
\* allocates (ServeHTTP compares body readers by identity). The caller has
\* checked r # Nil: the code dereferences r.TransferEncoding.
NewResponse(r, contentType, status, body, id) ==
    [Request |-> r,
     TransferEncoding |-> r.TransferEncoding,
     Header |-> HeaderAdd(EmptyHeader, "Content-Type", contentType),
     StatusCode |-> status,
     Status |-> StatusText(status),
     Body |-> [id |-> id, data |-> body]]

\* A response a handler builds by hand, without a request to refer to.
LiteralResponse(contentType, status, body, id) ==
    [Request |-> Nil,
     TransferEncoding |-> <<>>,
     Header |-> HeaderAdd(EmptyHeader, "Content-Type", contentType),
     StatusCode |-> status,
     Status |-> StatusText(status),
     Body |-> [id |-> id, data |-> body]]

BlockedBody == <<"No Reddit at work time">>
ReplacedBody == <<"replaced">>
HandlerErrorText == "handler failed"

\* ---------------------------------------------------------------- conditions
\* DstHostIs(host): req.URL.Host == host. It dereferences req.
DstHostIs(host) == [cond |-> "DstHostIs", host |-> host]

ReqConditionHandleReq(c, req) == req.URL.Host = c.host

\* ReqConditionFunc.HandleResp ignores the response and asks ctx.Req.
ReqConditionHandleResp(c, rsp, cx) == ReqConditionHandleReq(c, cx.Req)

\* The outcome of `for _, cond := range conds { if !cond.HandleReq(req, ctx) {return} }`:
\* "panic" (a condition dereferenced a nil request or a nil URL), "fail" or
\* "pass".
\* (C26 mutant: the conditions are not asked.)
CondsOutcome_NotAsked(conds, req) == "pass"

RECURSIVE CondsOutcome(_, _)
CondsOutcome(conds, req) ==
    IF conds = <<>> THEN "pass"
    ELSE IF req = Nil \/ req.URL = Nil THEN "panic"
    ELSE IF ~ReqConditionHandleReq(Head(conds), req) THEN "fail"
    ELSE CondsOutcome(Tail(conds), req)

\* ------------------------------------------------------------ user handlers
\* The request handlers a user may register (the inputs of the model):
\*   pass         func(r, ctx) { log.Println(r.URL.String()); return r, nil }
\*                                                                  (part_001)
\*   rewrite      func(r, ctx) { if r.URL.Scheme == "https" { r.URL.Scheme = "http" }; return r, nil }
\*                                                                  (examples/ssltrip)
\*   canned       func(r, ctx) { return r, NewResponse(r, ContentTypeText, 403, ...) }
\*                                                                  (part_000)
\*   cannedNoReq  func(r, ctx) { return nil, <403 response built by hand> }
\*   setRoundTripper
\*                func(r, ctx) { ctx.RoundTripper = RoundTripperFunc(...); return r, nil }
ReqKinds == {"pass", "rewrite", "canned", "cannedNoReq", "setRoundTripper"}

\* The response handlers a user may register:
\*   keep     func(resp, ctx) { return resp }
\*   drop     func(resp, ctx) { return nil }
\*   errDrop  func(resp, ctx) { ctx.Error = errors.New(...); return nil }
\*   fresh    func(resp, ctx) { return NewResponse(ctx.Req, ContentTypeText, 200, "replaced") }
RespKinds == {"keep", "drop", "errDrop", "fresh"}

\* The round-trippers a request can go through: the server's transport
\* proxy.Tr, and the RoundTripperFunc the setRoundTripper handler installs.
ProxyTr == [roundTripper |-> "proxy.Tr"]
HandlerRoundTripper == [roundTripper |-> "handler"]

RewriteScheme(r) ==
    IF r.URL.Scheme = "https" THEN [r EXCEPT !.URL.Scheme = "http"] ELSE r

\* One call of a user's request handler: what it returns, what it leaves in
\* ctx, and whether it panicked on a nil request or a nil URL. idx is the handler's place in
\* the registry. A request travelling down the chain is the object ctx.Req
\* points to, so a handler that edits it in place edits ctx.Req as well.
UserReqHandle(kind, r, cx, idx) ==
    CASE kind = "pass" ->
            IF r = Nil \/ r.URL = Nil
            THEN [panic |-> TRUE, req |-> Nil, resp |-> Nil, ctx |-> cx]
            ELSE [panic |-> FALSE, req |-> r, resp |-> Nil, ctx |-> cx]
      [] kind = "rewrite" ->
            IF r = Nil \/ r.URL = Nil
            THEN [panic |-> TRUE, req |-> Nil, resp |-> Nil, ctx |-> cx]
            ELSE [panic |-> FALSE, req |-> RewriteScheme(r), resp |-> Nil,
                  ctx |-> [cx EXCEPT !.Req = RewriteScheme(r)]]
      [] kind = "canned" ->
            IF r = Nil
            THEN [panic |-> TRUE, req |-> Nil, resp |-> Nil, ctx |-> cx]
            ELSE [panic |-> FALSE, req |-> r,
                  resp |-> NewResponse(r, ContentTypeText, StatusForbidden, BlockedBody, idx),
                  ctx |-> cx]
      [] kind = "setRoundTripper" ->
            [panic |-> FALSE, req |-> r, resp |-> Nil,
             ctx |-> [cx EXCEPT !.RoundTripper = HandlerRoundTripper]]
      [] kind = "cannedNoReq" ->
            [panic |-> FALSE, req |-> Nil,
             resp |-> LiteralResponse(ContentTypeText, StatusForbidden, BlockedBody, idx),
             ctx |-> cx]

\* One call of a user's response handler. Bodies made by response handlers
\* get identities apart from those made by request handlers.
UserRespHandle(kind, rsp, cx, idx) ==
    CASE kind = "keep" -> [resp |-> rsp, ctx |-> cx]
      [] kind = "drop" -> [resp |-> Nil, ctx |-> cx]
      [] kind = "errDrop" -> [resp |-> Nil, ctx |-> [cx EXCEPT !.Error = HandlerErrorText]]
      [] kind = "fresh" ->
            [resp |-> NewResponse(cx.Req, ContentTypeText, 200, ReplacedBody, 100 + idx),
             ctx |-> cx]

\* -------------------------------------------------- registered handlers
\* ReqProxyConds.Do: the registered handler runs the conditions against the
\* request it is given; if one fails it returns (r, nil), else the user's
\* handler decides.
ReqHandlerHandle(entry, r, cx, idx) ==
    LET oc == CondsOutcome(entry.reqConds, r)
    IN CASE oc = "panic" -> [panic |-> TRUE, req |-> Nil, resp |-> Nil, ctx |-> cx]
         [] oc = "fail" -> [panic |-> FALSE, req |-> r, resp |-> Nil, ctx |-> cx]
         [] oc = "pass" -> UserReqHandle(entry.kind, r, cx, idx)

\* The outcome of the response conditions (each a ReqConditionFunc given to
\* OnResponse, answering through ctx.Req).
RECURSIVE RespCondsOutcome(_, _, _)
RespCondsOutcome(conds, rsp, cx) ==
    IF conds = <<>> THEN "pass"
    ELSE IF ~ReqConditionHandleResp(Head(conds), rsp, cx) THEN "fail"
    ELSE RespCondsOutcome(Tail(conds), rsp, cx)

\* ProxyConds.Do: request conditions against ctx.Req, then response
\* conditions; if one fails the response is returned as it came.
RespHandlerHandle(entry, rsp, cx, idx) ==
    IF CondsOutcome(entry.reqConds, cx.Req) # "pass" THEN [resp |-> rsp, ctx |-> cx]
    ELSE IF RespCondsOutcome(entry.respConds, rsp, cx) # "pass" THEN [resp |-> rsp, ctx |-> cx]
    ELSE UserRespHandle(entry.kind, rsp, cx, idx)

\* The condition lists a registration may carry.
CondChoices == {<<>>, <<DstHostIs(Reddit)>>}

\* ------------------------------------------------------------------- state
VARIABLES
    \* ProxyHttpServer
    sess,                    \* proxy.sess, the session counter
    KeepDestinationHeaders,  \* proxy.KeepDestinationHeaders
    reqHandlers,             \* proxy.reqHandlers
    respHandlers,            \* proxy.respHandlers
    httpsHandlers,           \* proxy.httpsHandlers
    \* the session being served
    pc,                      \* where ServeHTTP / handleHttps stands
    ctx,                     \* the session's ProxyCtx
    req,                     \* the local r / req
    resp,                    \* the local resp
    origBody,                \* identity of the body reader of the request chain's response (0: none)
    i,                       \* the index of the running range loop
    w,                       \* the http.ResponseWriter
    rIn,                     \* the request as it arrived (history)
    \* what the session did (history)
    reqTrace,                \* the request-handler calls made, in order
    respTrace,               \* the response-handler calls made, in order
    outbound,                \* the requests sent upstream through a round-tripper
    closedBodies,            \* identities of the response bodies closed
    \* the CONNECT engine
    dialHooks,               \* which of proxy.ConnectDialWithReq / proxy.ConnectDial are set
    proxyClient,             \* the hijacked client socket (Nil before Hijack)
    targetSiteCon,           \* the dialed upstream socket (Nil if none)
    todo,                    \* the chosen ConnectAction
    host,                    \* the chosen host
    connTrace,               \* the CONNECT-handler calls made, in order (history)
    dialLog,                 \* the dials made: hook, address, outcome (history)
    tasks,                   \* the goroutines handleHttps started and where each stands
    copyErr,                 \* per relay task: io.Copy returned an error
    cliSent,                 \* the tunnel bytes the client has sent (history)
    upSent,                  \* the tunnel bytes the upstream has sent (history)
    \* sessions, certificates, the MITM goroutine
    sessLog,                 \* the session ids given out, in the order of the increments (history)
    CertStore,               \* proxy.CertStore is set
    certs,                   \* CertStorage.certs: hostname -> stored certificate
    genLog,                  \* the calls of a certificate generator: host, outcome (history)
    fetchers,                \* the running calls of CertStorage.Fetch and where each stands
    rawClientTls,            \* the TLS session over the hijacked socket (Nil before tls.Server)
    inner,                   \* the MITM loop's locals: ctx, req, resp, err
    innerLog,                \* what the MITM loop did for each inner request (history)
    \* transport.Transport
    transport,               \* t.DisableKeepAlives, t.MaxIdleConnsPerHost, t.DisableCompression
    idleConn,                \* t.idleConn: whether the map is made, and per cache key its list
    pconns,                  \* the persistConns made: cacheKey, broken
    lastPut,                 \* the last call of putIdleConn and what it did (history)
    lastGet,                 \* the last call of getIdleConn and what it did (history)
    calls,                   \* the calls of Transport.DetailedRoundTrip and where each stands
    wire                     \* per persistConn: its sockets, reader and writer, reqch, read loop

srvVars == <<sess, KeepDestinationHeaders, reqHandlers, respHandlers, httpsHandlers, dialHooks>>
fwdRest == <<req, resp, origBody, w, rIn, reqTrace, respTrace, outbound>>
fwdVars == <<fwdRest, closedBodies>>
conVars == <<proxyClient, targetSiteCon, todo, host, connTrace, dialLog, tasks, copyErr,
             cliSent, upSent>>
certVars == <<CertStore, certs, genLog, fetchers>>
mitmVars == <<rawClientTls, inner, innerLog>>
poolVars == <<transport, idleConn, pconns, lastPut>>
rtVars == <<lastGet, calls, wire>>
extVars == <<sessLog, certVars, mitmVars, poolVars, rtVars>>

\* ------------------------------------------------------- the idle pool
\* How many persistConns the model dials.
MaxConns == 3

\* var DefaultMaxIdleConnsPerHost = 2
DefaultMaxIdleConnsPerHost == 2

\* The connectMethods in use: direct connections (no proxy URL) to an http
\* and to an https server.
ConnectMethods ==
    {[proxyURL |-> "", targetSchema |-> "http", targetAddr |-> "a.example:80"],
     [proxyURL |-> "", targetSchema |-> "https", targetAddr |-> "b.example:443"]}

\* cm.String(): proxy URL, scheme and address joined by "|".
cmString(cm) == cm.proxyURL \o "|" \o cm.targetSchema \o "|" \o cm.targetAddr

\* The cache keys in use.
CacheKeys == {cmString(cm) : cm \in ConnectMethods}

\* A place in pconns no connection was dialed for yet.
NoConn == [made |-> FALSE, cacheKey |-> "", broken |-> FALSE]

\* How many calls of DetailedRoundTrip the model makes.
MaxCalls == 2

\* A call of DetailedRoundTrip not made yet.
IdleCall == [pc |-> "idle", conn |-> 0, res |-> Nil, err |-> NoError,
             Header |-> EmptyHeader, extra |-> EmptyHeader]

\* The headers a caller's request comes with: none, or its own
\* Accept-Encoding.
CallerHeaders == {EmptyHeader, HeaderSet(EmptyHeader, "Accept-Encoding", "identity")}

\* The wire of a connection not dialed yet.
NoWire == [tls |-> FALSE, conn |-> "", bw |-> "", br |-> "",
           rawOut |-> <<>>, tlsOut |-> <<>>, rawIn |-> <<>>, tlsIn |-> <<>>,
           reqch |-> <<>>, numExpectedResponses |-> 0, readLoop |-> "none"]

\* --------------------------------------------------------- certificates
\* How many calls of CertStorage.Fetch the model runs side by side.
MaxFetchers == 3

\* The hostnames certificates are signed for.
Hostnames == {<<"example.com">>, <<"www.reddit.com">>, <<"mirror.example">>}

\* A call of Fetch that has not started.
IdleFetch == [pc |-> "idle", host |-> <<>>, cert |-> Nil, err |-> NoError, gens |-> 0,
              stored |-> FALSE]

\* (C27 mutant: the context is made without UserData.)
NewProxyCtx_NoUserData(r, id, store, userData) ==
    [Req |-> r, Resp |-> Nil, Session |-> id, Error |-> NoError,
     certStore |-> store, UserData |-> Nil, RoundTripper |-> Nil]

\* &ProxyCtx{Req: r, Session: id, Proxy: proxy, certStore: ..., UserData: ...};
\* the fields not named are nil.
NewProxyCtx(r, id, store, userData) ==
    [Req |-> r, Resp |-> Nil, Session |-> id, Error |-> NoError,
     certStore |-> store, UserData |-> userData, RoundTripper |-> Nil]

\* The response writer handed to ServeHTTP: nothing written yet. A wrapping
\* http.Handler may have put headers in it already.
FreshWriter(h) == [Header |-> h, Status |-> 0, Body |-> <<>>, FlushEach |-> FALSE]

\* The writers handed in with a CONNECT request: whether the writer is an
\* http.Hijacker, and whether its Hijack() fails.
ConnectWriters == {[Hijacker |-> hj, HijackFails |-> hf] : hj, hf \in BOOLEAN}

Writers == {FreshWriter(EmptyHeader),
            FreshWriter(HeaderAdd(EmptyHeader, "X-Dest", "d"))}

ForwardRequests ==
    {MkRequest("GET", s, h, <<"/">>, h) : s \in {"http", "https"}, h \in {Reddit, Example}}
    \cup {MkRequest("GET", "", <<>>, <<"/">>, Example)}

Registered == Len(reqHandlers) + Len(respHandlers) + Len(httpsHandlers)

\* The ways a call of ServeHTTP ends: it returned (the URL was not absolute;
\* after writing 500; after copying a response), or it panicked (inside a
\* handler; on the nil request in the 500 branch).
Ended == {"returned:notAbs", "returned:500", "returned:copied",
          "panic:handler", "panic:nilRequest"}

\* NewProxyHttpServer (no handler, counter 0, no hook, flag false), and no
\* session yet.
Init ==
    /\ sess = 0
    /\ KeepDestinationHeaders = FALSE
    /\ reqHandlers = <<>>
    /\ respHandlers = <<>>
    /\ httpsHandlers = <<>>
    /\ dialHooks = {}
    /\ pc = "config"
    /\ ctx = Nil
    /\ req = Nil
    /\ resp = Nil
    /\ origBody = 0
    /\ i = 0
    /\ w = FreshWriter(EmptyHeader)
    /\ rIn = Nil
    /\ reqTrace = <<>>
    /\ respTrace = <<>>
    /\ outbound = <<>>
    /\ closedBodies = {}
    /\ proxyClient = Nil
    /\ targetSiteCon = Nil
    /\ todo = Nil
    /\ host = <<>>
    /\ connTrace = <<>>
    /\ dialLog = <<>>
    /\ tasks = [t \in {"up", "down", "mitm"} |-> "idle"]
    /\ copyErr = [t \in {"up", "down"} |-> FALSE]
    /\ cliSent = <<>>
    /\ upSent = <<>>
    /\ sessLog = <<>>
    /\ CertStore = FALSE
    /\ certs = [h \in Hostnames |-> Nil]
    /\ genLog = <<>>
    /\ fetchers = [f \in 1..MaxFetchers |-> IdleFetch]
    /\ rawClientTls = Nil
    /\ inner = Nil
    /\ innerLog = <<>>
    /\ transport = [DisableKeepAlives |-> FALSE, MaxIdleConnsPerHost |-> 0,
                    DisableCompression |-> FALSE]
    /\ idleConn = [made |-> FALSE, m |-> [k \in CacheKeys |-> <<>>]]
    /\ pconns = [c \in 1..MaxConns |-> NoConn]
    /\ lastPut = Nil
    /\ lastGet = Nil
    /\ calls = [k \in 1..MaxCalls |-> IdleCall]
    /\ wire = [c \in 1..MaxConns |-> NoWire]

\* ------------------------------------------------------------ registration
\* proxy.OnRequest(conds...).Do(h) / DoFunc(f)
OnRequestDo(conds, kind) ==
    /\ pc = "config"
    /\ Registered < MaxHandlers
    /\ reqHandlers' = Append(reqHandlers, [reqConds |-> conds, kind |-> kind])
    /\ UNCHANGED <<sess, KeepDestinationHeaders, respHandlers, httpsHandlers, dialHooks>>
    /\ UNCHANGED <<pc, ctx, i>>
    /\ UNCHANGED <<fwdVars, conVars>>
    /\ UNCHANGED extVars

\* proxy.OnResponse(conds...).Do(h) / DoFunc(f): the conditions become the
\* response conditions, the request conditions are empty.
OnResponseDo(conds, kind) ==
    /\ pc = "config"
    /\ Registered < MaxHandlers
    /\ respHandlers' = Append(respHandlers,
                              [reqConds |-> <<>>, respConds |-> conds, kind |-> kind])
    /\ UNCHANGED <<sess, KeepDestinationHeaders, reqHandlers, httpsHandlers, dialHooks>>
    /\ UNCHANGED <<pc, ctx, i>>
    /\ UNCHANGED <<fwdVars, conVars>>
    /\ UNCHANGED extVars

\* proxy.KeepDestinationHeaders = true
SetKeepDestinationHeaders ==
    /\ pc = "config"
    /\ ~KeepDestinationHeaders
    /\ KeepDestinationHeaders' = TRUE
    /\ UNCHANGED <<sess, reqHandlers, respHandlers, httpsHandlers, dialHooks>>
    /\ UNCHANGED <<pc, ctx, i>>
    /\ UNCHANGED <<fwdVars, conVars>>
    /\ UNCHANGED extVars

\* (C15 mutant: the counter is read but the sum is not stored.)
AtomicAddInt64_NotStored(v, delta) == v

\* atomic.AddInt64(&proxy.sess, delta): the counter becomes the sum and the
\* sum is returned, in one step no other goroutine's step falls into.
AtomicAddInt64(v, delta) == v + delta

\* The ways a call of handleHttps ends: it panicked (no Hijacker, or Hijack
\* failed), or it returned (after a failed dial; with the tunnel accepted;
\* after a failed TLS-config provider; with the MITM goroutine started;
\* through the switch with no case for the action).
ConnectEnded == {"panic:hijack", "returned:dialError", "returned:accepted",
                 "returned:tlsConfigError", "returned:mitm", "returned:noCase"}

\* No relay goroutine of an earlier session is still running (the model
\* serves one session after the other).
RelayQuiet == \A t \in {"up", "down"} : tasks[t] \in {"idle", "done"}

\* No MITM goroutine of an earlier tunnel is still running (the model runs
\* one MITM tunnel at a time).
MitmQuiet == tasks["mitm"] \in {"idle", "done"}

\* A panic in the MITM goroutine has ended the process.
Crashed == tasks["mitm"] = "panic"

\* ------------------------------------------------------- the forward path
\* filterRequest's loop exit test after a handler returned (req, resp).
filterRequestBreaks(rq, rs) == rq # Nil

\* ServeHTTP, a request whose method is not CONNECT: the session context is
\* made (one atomic increment of proxy.sess); a URL that is not absolute ends
\* the call at once.
ServeHTTP(r0, w0) ==
    /\ pc \in {"config"} \cup Ended \cup ConnectEnded
    /\ RelayQuiet
    /\ ~Crashed
    /\ sess < MaxSessions
    /\ r0.Method # "CONNECT"
    /\ sess' = AtomicAddInt64(sess, 1)
    /\ ctx' = NewProxyCtx(r0, sess', FALSE, Nil)
    /\ sessLog' = Append(sessLog, [id |-> sess', by |-> "ServeHTTP"])
    /\ req' = r0
    /\ resp' = Nil
    /\ origBody' = 0
    /\ w' = w0
    /\ rIn' = r0
    /\ reqTrace' = <<>>
    /\ respTrace' = <<>>
    /\ outbound' = <<>>
    /\ closedBodies' = {}
    /\ IF ~IsAbs(r0.URL)
       THEN pc' = "returned:notAbs" /\ i' = 0
       ELSE pc' = "filterRequest" /\ i' = 1
    /\ UNCHANGED <<KeepDestinationHeaders, reqHandlers, respHandlers, httpsHandlers, dialHooks>>
    /\ UNCHANGED conVars
    /\ UNCHANGED <<certVars, mitmVars, poolVars, rtVars>>

\* filterRequest, one turn of its loop: the handler is called with the current
\* request; the loop is left when filterRequestBreaks says so.
filterRequestStep ==
    /\ pc = "filterRequest"
    /\ i <= Len(reqHandlers)
    /\ LET out == ReqHandlerHandle(reqHandlers[i], req, ctx, i)
       IN /\ reqTrace' = Append(reqTrace,
                [idx |-> i, in |-> req, req |-> out.req, resp |-> out.resp,
                 panic |-> out.panic])
          /\ IF out.panic
             THEN /\ pc' = "panic:handler"
                  /\ UNCHANGED <<req, resp, ctx, i>>
             ELSE /\ req' = out.req
                  /\ resp' = out.resp
                  /\ ctx' = out.ctx
                  /\ i' = IF filterRequestBreaks(out.req, out.resp)
                          THEN Len(reqHandlers) + 1
                          ELSE i + 1
                  /\ pc' = pc
    /\ UNCHANGED srvVars
    /\ UNCHANGED <<origBody, w, rIn, respTrace, outbound, closedBodies>>
    /\ UNCHANGED conVars
    /\ UNCHANGED extVars

\* ServeHTTP between the two chains: r and resp are what filterRequest
\* returned; the branch for a missing response is empty (no request is sent
\* upstream); the body reader of a response is remembered.
ServeHTTPAfterRequestChain ==
    /\ pc = "filterRequest"
    /\ i > Len(reqHandlers)
    /\ origBody' = IF resp # Nil THEN resp.Body.id ELSE 0
    /\ pc' = "filterResponse"
    /\ i' = 1
    /\ UNCHANGED srvVars
    /\ UNCHANGED <<ctx, req, resp, w, rIn, reqTrace, respTrace, outbound, closedBodies>>
    /\ UNCHANGED conVars
    /\ UNCHANGED extVars

\* (C25 mutant: the loop is left once a handler has returned a response.)
filterResponseStep_ShortCircuit ==
    /\ pc = "filterResponse"
    /\ i <= Len(respHandlers)
    /\ LET cx == [ctx EXCEPT !.Resp = resp]
           out == RespHandlerHandle(respHandlers[i], resp, cx, i)
       IN /\ respTrace' = Append(respTrace,
                [idx |-> i, in |-> resp, ctxResp |-> cx.Resp, resp |-> out.resp])
          /\ resp' = out.resp
          /\ ctx' = out.ctx
          /\ i' = IF out.resp # Nil THEN Len(respHandlers) + 1 ELSE i + 1
    /\ UNCHANGED srvVars
    /\ UNCHANGED <<pc, req, origBody, w, rIn, reqTrace, outbound, closedBodies>>
    /\ UNCHANGED conVars
    /\ UNCHANGED extVars

\* filterResponse, one turn of its loop: ctx.Resp is set to the handler's
\* input and the handler's result becomes the current response.
filterResponseStep ==
    /\ pc = "filterResponse"
    /\ i <= Len(respHandlers)
    /\ LET cx == [ctx EXCEPT !.Resp = resp]
           out == RespHandlerHandle(respHandlers[i], resp, cx, i)
       IN /\ respTrace' = Append(respTrace,
                [idx |-> i, in |-> resp, ctxResp |-> cx.Resp, resp |-> out.resp])
          /\ resp' = out.resp
          /\ ctx' = out.ctx
    /\ i' = i + 1
    /\ UNCHANGED srvVars
    /\ UNCHANGED <<pc, req, origBody, w, rIn, reqTrace, outbound, closedBodies>>
    /\ UNCHANGED conVars
    /\ UNCHANGED extVars

\* net/http's http.Error(w, text, code).
HttpError(wr, text, code) ==
    [wr EXCEPT
        !.Header = HeaderSet(HeaderSet(HeaderDel(wr.Header, "Content-Length"),
                                       "Content-Type", "text/plain; charset=utf-8"),
                             "X-Content-Type-Options", "nosniff"),
        !.Status = code,
        !.Body = wr.Body \o text \o <<"\n">>]

\* The text ServeHTTP writes for a missing response: the context's error, or
\* the generic message naming r.URL.Host.
NilResponseText(r, cx) ==
    IF cx.Error # NoError
    THEN <<cx.Error>>
    ELSE <<"error read response ">> \o r.URL.Host \o <<" : response is nil">>

\* ServeHTTP after the response chain. A missing response: both branches
\* build a message from r.URL.Host (r is what the request chain returned, so
\* a nil r panics), then 500 is written. Otherwise Content-Length is dropped
\* when the body reader was swapped, the headers are copied, the status
\* written and the body streamed and closed. The deferred origBody.Close()
\* runs when the call returns.
ServeHTTPWrite ==
    /\ pc = "filterResponse"
    /\ i > Len(respHandlers)
    /\ IF resp = Nil
       THEN IF req = Nil
            THEN /\ pc' = "panic:nilRequest"
                 /\ w' = w
            ELSE /\ pc' = "returned:500"
                 /\ w' = HttpError(w, NilResponseText(req, ctx), StatusInternalServerError)
       ELSE LET hdr == IF origBody # resp.Body.id
                       THEN HeaderDel(resp.Header, "Content-Length")
                       ELSE resp.Header
                out == copyHeaders(w.Header, hdr, KeepDestinationHeaders)
            IN /\ pc' = "returned:copied"
               /\ w' = [Header |-> out,
                        Status |-> resp.StatusCode,
                        Body |-> w.Body \o resp.Body.data,
                        FlushEach |-> (HeaderGet(out, "Content-Type") = "text/event-stream")]
    /\ closedBodies' = closedBodies
                       \cup (IF origBody # 0 THEN {origBody} ELSE {})
                       \cup (IF resp # Nil THEN {resp.Body.id} ELSE {})
    /\ UNCHANGED srvVars
    /\ UNCHANGED <<ctx, req, resp, origBody, i, rIn, reqTrace, respTrace, outbound>>
    /\ UNCHANGED conVars
    /\ UNCHANGED extVars

\* ------------------------------------------------------ the CONNECT engine
ConnectAccept == 0
ConnectReject == 1
ConnectMitm == 2
ConnectHijack == 3

\* A ConnectAction; TLSConfig names the provider ("" is a nil func).
OKConnect == [Action |-> ConnectAccept, TLSConfig |-> "TLSConfigFromCA"]
MitmConnect == [Action |-> ConnectMitm, TLSConfig |-> "TLSConfigFromCA"]
\* &ConnectAction{Action: ConnectReject}, built by a user's handler.
RejectConnect == [Action |-> ConnectReject, TLSConfig |-> ""]

ExampleTLS == <<"example.com", ":", "443">>
RedditTLS == <<"www.reddit.com", ":", "443">>
MirrorTLS == <<"mirror.example", ":", "8443">>

\* The tokens that are runs of digits.
DigitRuns == {"80", "443", "8443"}

\* hasPort.MatchString(host), hasPort = `:\d+$`.
hasPort(h) == Len(h) >= 2 /\ h[Len(h) - 1] = ":" /\ h[Len(h)] \in DigitRuns

ConnectRequests ==
    {MkRequest("CONNECT", "", h, <<>>, h) : h \in {ExampleTLS, Example, RedditTLS}}

\* The CONNECT handlers a user may register:
\*   AlwaysMitm  (dispatcher.go)          return MitmConnect, host
\*   acceptTo    func(host, ctx) { return OKConnect, "mirror.example:8443" }
\*   reject      func(host, ctx) { return &ConnectAction{Action: ConnectReject}, host }
\*   decline     func(host, ctx) { return nil, "" }
\*   tagMitm     func(host, ctx) { ctx.UserData = tag; return MitmConnect, host }
HttpsKinds == {"AlwaysMitm", "acceptTo", "reject", "decline"}

\* What tagMitm leaves in ctx.UserData.
UserTag == [tag |-> "outer"]

UserHandleConnect(kind, h, cx) ==
    CASE kind = "AlwaysMitm" -> [action |-> MitmConnect, host |-> h]
      [] kind = "acceptTo" -> [action |-> OKConnect, host |-> MirrorTLS]
      [] kind = "reject" -> [action |-> RejectConnect, host |-> h]
      [] kind = "decline" -> [action |-> Nil, host |-> <<>>]
      [] kind = "tagMitm" -> [action |-> MitmConnect, host |-> h]

\* The context after the handler's call: the handlers get the pointer and
\* tagMitm writes its UserData.
UserHandleConnectCtx(kind, cx) ==
    IF kind = "tagMitm" THEN [cx EXCEPT !.UserData = UserTag] ELSE cx

\* ReqProxyConds.HandleConnect: the conditions are asked about ctx.Req (the
\* CONNECT request); if one fails the handler answers (nil, "").
HttpsHandlerHandleConnect(entry, h, cx) ==
    IF CondsOutcome(entry.reqConds, cx.Req) = "pass"
    THEN UserHandleConnect(entry.kind, h, cx)
    ELSE [action |-> Nil, host |-> <<>>]

HttpsHandlerCtx(entry, cx) ==
    IF CondsOutcome(entry.reqConds, cx.Req) = "pass"
    THEN UserHandleConnectCtx(entry.kind, cx)
    ELSE cx

ConnectCondChoices == {<<>>, <<DstHostIs(ExampleTLS)>>}

\* What a generator call returns: a fresh certificate for host (serial tells
\* the certificates of one host apart), or an error.
GenCall(h, ok) ==
    IF ok
    THEN [host |-> h, cert |-> [host |-> h, serial |-> Len(genLog) + 1], err |-> NoError]
    ELSE [host |-> h, cert |-> Nil, err |-> "no key"]

\* (C17 mutant: Load never finds the host.)
FetchAfterLoad_AlwaysMiss(fr, icert) == [fr EXCEPT !.pc = "gen"]

\* Fetch after tcs.certs.Load(host): a stored certificate is returned, else
\* gen is to be called.
FetchAfterLoad(fr, icert) ==
    IF icert # Nil
    THEN [fr EXCEPT !.pc = "done", !.cert = icert]
    ELSE [fr EXCEPT !.pc = "gen"]

\* (C16 mutant: the error of gen is returned, but the call goes on to Store.)
FetchAfterGen_StoreAnyway(fr, g) ==
    [fr EXCEPT !.pc = "store", !.gens = @ + 1, !.err = g.err,
               !.cert = [host |-> fr.host, serial |-> 0]]

\* Fetch after gen(): an error is returned as it is with a nil certificate,
\* else the certificate is to be stored.
FetchAfterGen(fr, g) ==
    IF g.err # NoError
    THEN [fr EXCEPT !.pc = "done", !.gens = @ + 1, !.err = g.err, !.cert = Nil]
    ELSE [fr EXCEPT !.pc = "store", !.gens = @ + 1, !.cert = g.cert]

\* stripPort(s): with brackets in s (an IPv6 literal) every bracket is
\* dropped and the text is cut at its last colon; otherwise the text is cut
\* at its first colon; without a colon it is returned as it is.
stripPort(s) ==
    LET Colons(u) == {k \in 1..Len(u) : u[k] = ":"}
        Min(S) == CHOOSE k \in S : \A j \in S : k <= j
        Max(S) == CHOOSE k \in S : \A j \in S : k >= j
    IN IF (\E k \in 1..Len(s) : s[k] = "[") /\ (\E k \in 1..Len(s) : s[k] = "]")
       THEN LET u == SelectSeq(s, LAMBDA x : x # "[" /\ x # "]")
            IN IF Colons(u) = {} THEN u ELSE SubSeq(u, 1, Max(Colons(u)) - 1)
       ELSE IF Colons(s) = {} THEN s ELSE SubSeq(s, 1, Min(Colons(s)) - 1)

\* The function TLSConfigFromCA(ca) returns, called with (host, ctx): the
\* certificate for the host without its port comes from ctx.certStore.Fetch
\* when the context has a store, from the generator otherwise. ok: whether
\* the generator, if called, succeeds. gen, store: whether the generator was
\* called and whether the certificate was stored.
TLSConfigFromCA(h, cx, ok) ==
    LET hostname == stripPort(h)
        g == GenCall(hostname, ok)
        loaded == FetchAfterLoad([IdleFetch EXCEPT !.host = hostname], certs[hostname])
        fetched == IF loaded.pc = "gen" THEN FetchAfterGen(loaded, g) ELSE loaded
    IN IF cx.certStore
       THEN [cert |-> fetched.cert, err |-> fetched.err,
             gen |-> loaded.pc = "gen", store |-> fetched.pc = "store"]
       ELSE [cert |-> g.cert, err |-> g.err, gen |-> TRUE, store |-> FALSE]

\* (C7 mutant: no returned action ends the loop.)
handleHttpsBreaks_Never(newtodo) == FALSE

\* handleHttps's loop exit test after a CONNECT handler returned newtodo.
handleHttpsBreaks(newtodo) == newtodo # Nil

\* A TCP connection as the proxy holds it: out is what the proxy wrote (and
\* the peer receives), in is what the peer sent and the proxy has not read,
\* peerEOF says the peer has shut down its sending side, wrShut that the
\* proxy called CloseWrite, closed that it called Close. halfClosable: the
\* Go value has CloseWrite and CloseRead.
NewSocket(hc) ==
    [out |-> <<>>, in |-> <<>>, peerEOF |-> FALSE,
     wrShut |-> FALSE, closed |-> FALSE, halfClosable |-> hc]

WriteFails(sock) == sock.closed \/ sock.wrShut

SockWrite(sock, data) ==
    IF WriteFails(sock) THEN sock ELSE [sock EXCEPT !.out = @ \o data]

SockClose(sock) == [sock EXCEPT !.closed = TRUE]

CloseWrite(sock) == [sock EXCEPT !.wrShut = TRUE]

\* Error texts are spelled out, since httpError writes their length.
DialErrorText == <<"r", "e", "f", "u", "s", "e", "d">>
SignErrorText == <<"n", "o", " ", "k", "e", "y">>

BadGateway(err) ==
    <<"HTTP/1.1 502 Bad Gateway\r\n", "Content-Type: text-plain\r\n",
      "Content-Length:", ToString(Len(err)), "\r\n\r\n">> \o err

\* (C8 mutant: the error is written but the socket is left open.)
httpError_NoClose(sock, err) == SockWrite(sock, BadGateway(err))

\* httpError(w, ctx, err): the 502 text is written, then w is closed.
httpError(sock, err) == SockClose(SockWrite(sock, BadGateway(err)))

Established == "HTTP/1.1 200 Connection established\r\n\r\n"
MitmOK == "HTTP/1.1 200 OK\r\n\r\n"

\* connectDial: which dialer is used.
connectDial(hooks) ==
    IF "ConnectDialWithReq" \notin hooks /\ "ConnectDial" \notin hooks
    THEN "proxy.dial"
    ELSE IF "ConnectDialWithReq" \in hooks THEN "ConnectDialWithReq"
    ELSE "ConnectDial"

\* proxy.OnRequest(conds...).HandleConnect(h)
OnRequestHandleConnect(conds, kind) ==
    /\ pc = "config"
    /\ Registered < MaxHandlers
    /\ httpsHandlers' = Append(httpsHandlers, [reqConds |-> conds, kind |-> kind])
    /\ UNCHANGED <<sess, KeepDestinationHeaders, reqHandlers, respHandlers, dialHooks>>
    /\ UNCHANGED <<pc, ctx, i>>
    /\ UNCHANGED <<fwdVars, conVars>>
    /\ UNCHANGED extVars

\* proxy.ConnectDial = ... / proxy.ConnectDialWithReq = ...
SetConnectDial(hook) ==
    /\ pc = "config"
    /\ hook \notin dialHooks
    /\ dialHooks' = dialHooks \cup {hook}
    /\ UNCHANGED <<sess, KeepDestinationHeaders, reqHandlers, respHandlers, httpsHandlers>>
    /\ UNCHANGED <<pc, ctx, i>>
    /\ UNCHANGED <<fwdVars, conVars>>
    /\ UNCHANGED extVars

\* ServeHTTP on a CONNECT request, that is handleHttps up to its loop: the
\* session context is made, the writer must be a Hijacker and Hijack must
\* succeed (else panic), and the choice starts at (OKConnect, r.URL.Host).
\* hc: whether the hijacked connection is half-closable.
handleHttps(r0, w0, hc) ==
    /\ pc \in {"config"} \cup Ended \cup ConnectEnded
    /\ RelayQuiet
    /\ MitmQuiet
    /\ sess < MaxSessions
    /\ r0.Method = "CONNECT"
    /\ sess' = AtomicAddInt64(sess, 1)
    /\ ctx' = NewProxyCtx(r0, sess', CertStore, Nil)
    /\ sessLog' = Append(sessLog, [id |-> sess', by |-> "handleHttps"])
    /\ rIn' = r0
    /\ connTrace' = <<>>
    /\ dialLog' = <<>>
    /\ targetSiteCon' = Nil
    /\ tasks' = [t \in {"up", "down", "mitm"} |-> "idle"]
    /\ copyErr' = [t \in {"up", "down"} |-> FALSE]
    /\ cliSent' = <<>>
    /\ upSent' = <<>>
    /\ IF ~w0.Hijacker \/ w0.HijackFails
       THEN /\ pc' = "panic:hijack"
            /\ proxyClient' = Nil
            /\ todo' = Nil
            /\ host' = <<>>
            /\ i' = 0
       ELSE /\ pc' = "httpsHandlers"
            /\ proxyClient' = NewSocket(hc)
            /\ todo' = OKConnect
            /\ host' = r0.URL.Host
            /\ i' = 1
    /\ UNCHANGED <<KeepDestinationHeaders, reqHandlers, respHandlers, httpsHandlers, dialHooks>>
    /\ UNCHANGED <<req, resp, origBody, w, reqTrace, respTrace, outbound, closedBodies>>
    /\ rawClientTls' = Nil
    /\ inner' = Nil
    /\ innerLog' = <<>>
    /\ UNCHANGED <<certVars, poolVars, rtVars>>

\* handleHttps, one turn of its loop over proxy.httpsHandlers: the handler is
\* called with the current host; a non-nil action is taken with its host and
\* ends the loop.
handleHttpsStep ==
    /\ pc = "httpsHandlers"
    /\ i <= Len(httpsHandlers)
    /\ LET out == HttpsHandlerHandleConnect(httpsHandlers[i], host, ctx)
       IN /\ connTrace' = Append(connTrace,
                [idx |-> i, host |-> host, action |-> out.action, newhost |-> out.host])
          /\ IF handleHttpsBreaks(out.action)
             THEN /\ todo' = out.action
                  /\ host' = out.host
                  /\ i' = Len(httpsHandlers) + 1
             ELSE /\ i' = i + 1
                  /\ UNCHANGED <<todo, host>>
    /\ ctx' = HttpsHandlerCtx(httpsHandlers[i], ctx)
    /\ UNCHANGED srvVars
    /\ UNCHANGED pc
    /\ UNCHANGED fwdVars
    /\ UNCHANGED <<proxyClient, targetSiteCon, dialLog, tasks, copyErr, cliSent, upSent>>
    /\ UNCHANGED extVars

\* case ConnectAccept: ":80" is appended to a host without a port; the
\* upstream is dialed through connectDial. dialOK and hcTarget are the
\* outcome of the dial: whether it succeeds, and whether the connection it
\* returns is half-closable. On failure httpError answers and the call
\* returns; on success "200 Connection established" is written and, if both
\* connections are half-closable, the two copyAndClose goroutines start.
handleHttpsAccept(dialOK, hcTarget) ==
    /\ pc = "httpsHandlers"
    /\ i > Len(httpsHandlers)
    /\ todo.Action = ConnectAccept
    /\ LET addr == IF hasPort(host) THEN host ELSE host \o <<":", "80">>
           err == IF dialOK THEN <<>> ELSE DialErrorText
       IN /\ host' = addr
          /\ dialLog' = Append(dialLog,
                [via |-> connectDial(dialHooks), network |-> "tcp", addr |-> addr,
                 err |-> err])
          /\ IF err # <<>>
             THEN /\ proxyClient' = httpError(proxyClient, err)
                  /\ pc' = "returned:dialError"
                  /\ UNCHANGED <<targetSiteCon, tasks>>
             ELSE /\ targetSiteCon' = NewSocket(hcTarget)
                  /\ proxyClient' = SockWrite(proxyClient, <<Established>>)
                  /\ tasks' = IF hcTarget /\ proxyClient.halfClosable
                              THEN [tasks EXCEPT !["up"] = "copy", !["down"] = "copy"]
                              ELSE tasks
                  /\ pc' = "returned:accepted"
    /\ UNCHANGED srvVars
    /\ UNCHANGED <<ctx, i>>
    /\ UNCHANGED fwdVars
    /\ UNCHANGED <<todo, connTrace, copyErr, cliSent, upSent>>
    /\ UNCHANGED extVars

\* case ConnectMitm, up to the start of its goroutine: "200 OK" is written,
\* the action's TLS-config provider is asked (tlsOK: whether its certificate
\* generator, if it runs, succeeds); on failure httpError answers and the
\* call returns, else the MITM goroutine starts with the client's TLS
\* handshake. The goroutine keeps the outer ctx, r and the TLS config.
handleHttpsMitm(tlsOK) ==
    /\ pc = "httpsHandlers"
    /\ i > Len(httpsHandlers)
    /\ todo.Action = ConnectMitm
    /\ LET written == SockWrite(proxyClient, <<MitmOK>>)
           cfg == IF todo.TLSConfig # ""
                  THEN TLSConfigFromCA(host, ctx, tlsOK)
                  ELSE [cert |-> Nil, err |-> NoError, gen |-> FALSE, store |-> FALSE]
       IN /\ genLog' = IF cfg.gen
                       THEN Append(genLog, GenCall(stripPort(host), tlsOK))
                       ELSE genLog
          /\ certs' = IF cfg.store THEN [certs EXCEPT ![stripPort(host)] = cfg.cert]
                      ELSE certs
          /\ IF cfg.err # NoError
             THEN /\ proxyClient' = httpError(written, SignErrorText)
                  /\ pc' = "returned:tlsConfigError"
                  /\ UNCHANGED <<tasks, inner>>
             ELSE /\ proxyClient' = written
                  /\ pc' = "returned:mitm"
                  /\ tasks' = [tasks EXCEPT !["mitm"] = "handshake"]
                  /\ inner' = [outer |-> ctx, r |-> rIn, cert |-> cfg.cert,
                               ctx |-> Nil, req |-> Nil, resp |-> Nil, err |-> NoError,
                               deferred |-> {}]
    /\ UNCHANGED srvVars
    /\ UNCHANGED <<ctx, i>>
    /\ UNCHANGED fwdVars
    /\ UNCHANGED <<targetSiteCon, todo, host, connTrace, dialLog, copyErr, cliSent, upSent>>
    /\ UNCHANGED <<sessLog, CertStore, fetchers, rawClientTls, innerLog, poolVars, rtVars>>

\* The switch has no case for ConnectReject and ConnectHijack: the call
\* returns and the hijacked socket is left as it is.
handleHttpsNoCase ==
    /\ pc = "httpsHandlers"
    /\ i > Len(httpsHandlers)
    /\ todo.Action \in {ConnectReject, ConnectHijack}
    /\ pc' = "returned:noCase"
    /\ UNCHANGED srvVars
    /\ UNCHANGED <<ctx, i>>
    /\ UNCHANGED fwdVars
    /\ UNCHANGED conVars
    /\ UNCHANGED extVars

\* ----------------------------------------------------- the MITM goroutine
\* How many inner requests a client sends through one MITM tunnel.
MaxInner == 2

\* A request as http.ReadRequest returns it from the TLS stream; clients
\* configured for a proxy send Proxy-Connection.
InnerRequest(method, scheme, urlHost, path, hostHeader) ==
    MkRequest(method, scheme, urlHost, path, hostHeader)
        @@ [Header |-> HeaderAdd(EmptyHeader, "Proxy-Connection", "keep-alive")]

\* Bytes http.ReadRequest returns an error for.
Malformed == [malformed |-> TRUE]

\* What a client sends through the tunnel: requests in origin form, a request
\* with an absolute https URL, or bytes http.ReadRequest cannot parse.
InnerItems ==
    {InnerRequest("GET", "", <<>>, <<"/">>, Example),
     InnerRequest("HEAD", "", <<>>, <<"/">>, Example),
     InnerRequest("GET", "https", Example, <<"/">>, Example),
     Malformed}

\* req.URL.String() of a URL http.ReadRequest made: the scheme with its
\* colon, "//" and the host when there is a scheme or a host, then the path
\* (behind a "/" if it lacks one after a host). The text is kept as its
\* pieces: names, digit runs, ":", "/" and "*".
URLString(u) ==
    (IF u.Scheme # "" THEN <<u.Scheme, ":">> ELSE <<>>)
        \o (IF (u.Scheme # "" \/ u.Host # <<>>) /\ (u.Host # <<>> \/ u.Path # <<>>)
            THEN <<"/", "/">> \o u.Host
            ELSE <<>>)
        \o (IF u.Path # <<>> /\ u.Path[1] # "/" /\ u.Host # <<>> THEN <<"/">> ELSE <<>>)
        \o u.Path

\* (C13 mutant: every URL passes for an https URL, none is rewritten.)
httpRegexpMatches_Always(url) == TRUE

\* httpRegexp.MatchString(req.URL.String()), httpRegexp = `^https:\/\/`.
httpRegexpMatches(url) ==
    LET s == URLString(url)
    IN Len(s) >= 4 /\ SubSeq(s, 1, 4) = <<"https", ":", "/", "/">>

\* OPTIONS * HTTP/1.1: http.ReadRequest takes the asterisk form, and the
\* URL's String() is "*".
AsteriskRequest == InnerRequest("OPTIONS", "", <<>>, <<"*">>, Example)

\* GET http://example.com/ HTTP/1.1: http.ReadRequest takes the absolute
\* form, and the URL's String() is "http://example.com/".
AbsoluteHttpRequest == InnerRequest("GET", "http", Example, <<"/">>, Example)

\* url.Parse("https://" + r.Host + req.URL.String()). Behind "https://" the
\* authority runs to the first "/" and the path is the rest from that "/"
\* on. The authority is taken whole for the host; what follows its last
\* colon must be digits or nothing, else Parse returns a nil URL and an
\* error. So for a URL in origin form the host is r.Host and the path the
\* URL's; for "*" behind a host with a port the URL is nil, behind a bare
\* host name the asterisk becomes part of the host and the path is empty;
\* for an absolute URL the host is r.Host with the scheme and its colon, and
\* the path begins at the "//" of the inner URL.
ParseInnerURL(rHost, url) ==
    LET rest == rHost \o URLString(url)
        Slashes == {k \in 1..Len(rest) : rest[k] = "/"}
        cut == IF Slashes = {} THEN Len(rest) + 1
               ELSE CHOOSE k \in Slashes : \A j \in Slashes : k <= j
        authority == SubSeq(rest, 1, cut - 1)
        Colons == {k \in 1..Len(authority) : authority[k] = ":"}
        last == CHOOSE k \in Colons : \A j \in Colons : k >= j
        port == SubSeq(authority, last + 1, Len(authority))
    IN IF Colons # {} /\ ~(port = <<>> \/ (Len(port) = 1 /\ port[1] \in DigitRuns))
       THEN Nil
       ELSE [Scheme |-> "https", Host |-> authority,
             Path |-> SubSeq(rest, cut, Len(rest))]

\* removeProxyHeaders(ctx, r): the headers meant for the proxy are dropped.
removeProxyHeaders(r) ==
    [r EXCEPT !.Header = HeaderDel(HeaderDel(HeaderDel(HeaderDel(HeaderDel(@,
        "Accept-Encoding"), "Proxy-Connection"), "Proxy-Authenticate"),
        "Proxy-Authorization"), "Connection")]

\* The round-tripper the MITM loop sends through: ctx.Proxy.Tr.
MitmRoundTripper(cx) == ProxyTr

\* What the upstream answers: 200 with a five-byte body (no body to HEAD).
UpstreamResponse(rq, id) ==
    [Request |-> rq,
     TransferEncoding |-> <<>>,
     Header |-> HeaderAdd(HeaderAdd(EmptyHeader, "Content-Type", "text/html"),
                          "Content-Length", "5"),
     StatusCode |-> 200,
     Status |-> "200 OK",
     Body |-> [id |-> id, data |-> IF rq.Method = "HEAD" THEN <<>> ELSE <<"hello">>]]

\* filterRequest(r, ctx) run to its end from handler k on: what it returns,
\* the context as the handlers left it, the calls made, and whether a handler
\* panicked.
RECURSIVE filterRequestRun(_, _, _, _, _)
filterRequestRun(k, r, rs, cx, trace) ==
    IF k > Len(reqHandlers)
    THEN [req |-> r, resp |-> rs, ctx |-> cx, trace |-> trace, panic |-> FALSE]
    ELSE LET out == ReqHandlerHandle(reqHandlers[k], r, cx, k)
             tr == Append(trace, [idx |-> k, in |-> r, req |-> out.req,
                                  resp |-> out.resp, panic |-> out.panic])
         IN IF out.panic
            THEN [req |-> r, resp |-> rs, ctx |-> cx, trace |-> tr, panic |-> TRUE]
            ELSE IF filterRequestBreaks(out.req, out.resp)
                 THEN [req |-> out.req, resp |-> out.resp, ctx |-> out.ctx,
                       trace |-> tr, panic |-> FALSE]
                 ELSE filterRequestRun(k + 1, out.req, out.resp, out.ctx, tr)

\* filterResponse(respOrig, ctx) run to its end from handler k on.
RECURSIVE filterResponseRun(_, _, _, _)
filterResponseRun(k, rs, cx, trace) ==
    IF k > Len(respHandlers)
    THEN [resp |-> rs, ctx |-> cx, trace |-> trace]
    ELSE LET cx1 == [cx EXCEPT !.Resp = rs]
             out == RespHandlerHandle(respHandlers[k], rs, cx1, k)
         IN filterResponseRun(k + 1, out.resp, out.ctx,
                Append(trace, [idx |-> k, in |-> rs, ctxResp |-> cx1.Resp,
                               resp |-> out.resp]))

\* strings.TrimPrefix(resp.Status, statusCode) for the status texts in use:
\* "200 OK" loses its code, the texts of http.StatusText have none to lose.
TrimPrefix(status, code) == IF status = code \o " OK" THEN " OK" ELSE status

\* The status line the MITM loop writes.
MitmStatusLine(rs) ==
    "HTTP/1.1 " \o ToString(rs.StatusCode)
        \o TrimPrefix(rs.Status, ToString(rs.StatusCode)) \o "\r\n"

\* (C12 mutant: the response's own framing headers are written.)
MitmHeader_Untouched(rs) == HeaderSet(rs.Header, "Connection", "close")

\* The header the MITM loop writes: unless the response's request is a HEAD,
\* Content-Length goes and Transfer-Encoding: chunked comes; Connection:
\* close is set in every case.
MitmHeader(rs) ==
    HeaderSet(IF rs.Request.Method = "HEAD"
              THEN rs.Header
              ELSE HeaderSet(HeaderDel(rs.Header, "Content-Length"),
                             "Transfer-Encoding", "chunked"),
              "Connection", "close")

\* io.Copy(newChunkedWriter(w), body): every piece of the body goes out as
\* one chunk.
ChunkedBody(data) == [k \in 1..Len(data) |-> [chunk |-> data[k]]]

\* The writes the MITM loop makes after the status line, each with what it
\* puts out: resp.Header.Write, the empty line and, unless the response's
\* request is a HEAD, io.Copy into the chunked writer, chunked.Close() (the
\* chunk of length zero) and the closing empty line.
MitmAfterStatusLine(rs) ==
    << <<[Header |-> MitmHeader(rs)]>>, <<[raw |-> "\r\n"]>> >>
        \o (IF rs.Request.Method = "HEAD"
            THEN <<>>
            ELSE << ChunkedBody(rs.Body.data), <<[raw |-> "0\r\n"]>>,
                    <<[raw |-> "\r\n"]>> >>)

\* What the first n of the writes put out.
RECURSIVE WrittenBy(_, _)
WrittenBy(writes, n) ==
    IF n = 0 THEN <<>> ELSE WrittenBy(writes, n - 1) \o writes[n]

\* The deferred resp.Body.Close() calls run when the goroutine returns or
\* unwinds: the bodies deferred so far are closed.
MitmDeferredClose ==
    closedBodies' = IF tasks'["mitm"] \in {"done", "panic"}
                    THEN closedBodies \cup inner'.deferred
                    ELSE closedBodies

\* The log with its last entry changed.
SetLast(log, entry) == [log EXCEPT ![Len(log)] = entry]

\* (C33 mutant: the goroutine returns without the deferred Close.)
MitmReturn_NoClose(how) ==
    /\ tasks' = [tasks EXCEPT !["mitm"] = how]
    /\ UNCHANGED <<rawClientTls, proxyClient>>

\* The goroutine returns: the deferred rawClientTls.Close() runs, which
\* closes the hijacked socket under it. how: "done", or "panic" when the
\* return is a panic unwinding.
MitmReturn(how) ==
    /\ tasks' = [tasks EXCEPT !["mitm"] = how]
    /\ rawClientTls' = IF rawClientTls = Nil THEN Nil
                       ELSE [rawClientTls EXCEPT !.closed = TRUE]
    /\ proxyClient' = SockClose(proxyClient)

\* The goroutine begins: tls.Server(proxyClient, tlsConfig) and the
\* handshake with the client, which fails or succeeds.
mitmHandshake(ok) ==
    /\ tasks["mitm"] = "handshake"
    /\ IF ok
       THEN /\ rawClientTls' = [in |-> <<>>, eof |-> FALSE, out |-> <<>>, closed |-> FALSE]
            /\ tasks' = [tasks EXCEPT !["mitm"] = "loop"]
            /\ UNCHANGED proxyClient
       ELSE /\ rawClientTls' = [in |-> <<>>, eof |-> FALSE, out |-> <<>>, closed |-> TRUE]
            /\ tasks' = [tasks EXCEPT !["mitm"] = "done"]
            /\ proxyClient' = SockClose(proxyClient)
    /\ UNCHANGED <<srvVars, pc, ctx, i, fwdVars>>
    /\ UNCHANGED <<targetSiteCon, todo, host, connTrace, dialLog, copyErr, cliSent, upSent>>
    /\ UNCHANGED <<sessLog, certVars, inner, innerLog, poolVars, rtVars>>

\* The client sends one more item through the tunnel. What the goroutine
\* does with it does not depend on when it was sent, so it is sent when the
\* goroutine waits for it in isEof.
ClientSendsInner(item) ==
    /\ tasks["mitm"] = "loop"
    /\ ~rawClientTls.eof
    /\ rawClientTls.in = <<>>
    /\ Len(innerLog) < MaxInner
    /\ rawClientTls' = [rawClientTls EXCEPT !.in = Append(@, item)]
    /\ UNCHANGED <<srvVars, pc, ctx, i, fwdVars, conVars>>
    /\ UNCHANGED <<sessLog, certVars, inner, innerLog, poolVars, rtVars>>

\* The client ends its side of the TLS stream.
ClientEndsTls ==
    /\ tasks["mitm"] = "loop"
    /\ ~rawClientTls.eof
    /\ rawClientTls.in = <<>>
    /\ rawClientTls' = [rawClientTls EXCEPT !.eof = TRUE]
    /\ UNCHANGED <<srvVars, pc, ctx, i, fwdVars, conVars>>
    /\ UNCHANGED <<sessLog, certVars, inner, innerLog, poolVars, rtVars>>

\* One turn of the loop up to filterRequest: isEof waits for a byte or the
\* end of the stream; at the end the loop is left and the goroutine returns.
\* Else http.ReadRequest reads one request, the inner session's context is
\* made (with the next session id, and the outer UserData) whether or not
\* the read failed; a failed read ends the goroutine; a URL that does not
\* begin with https:// is parsed anew behind "https://" + r.Host, and the
\* error of that parse is kept in err.
mitmReadRequest ==
    /\ tasks["mitm"] = "loop"
    /\ rawClientTls.in # <<>> \/ rawClientTls.eof
    /\ IF rawClientTls.in = <<>>
       THEN /\ MitmReturn("done")
            /\ UNCHANGED <<sess, sessLog, inner, innerLog>>
       ELSE LET item == Head(rawClientTls.in)
                id == AtomicAddInt64(sess, 1)
                rest == [rawClientTls EXCEPT !.in = Tail(@)]
            IN /\ sess' = id
               /\ sessLog' = Append(sessLog, [id |-> id, by |-> "mitm"])
               /\ IF item = Malformed
                  THEN /\ inner' = [inner EXCEPT
                              !.ctx = NewProxyCtx(Nil, id, FALSE, inner.outer.UserData),
                              !.req = Nil, !.resp = Nil, !.err = "read"]
                       /\ innerLog' = Append(innerLog,
                              [session |-> id, read |-> item, url |-> Nil,
                               reqTrace |-> <<>>, chainResp |-> Nil, outbound |-> Nil,
                               respTrace |-> <<>>, final |-> Nil, wrote |-> <<>>,
                                  whole |-> FALSE, ctx |-> inner'.ctx])
                       /\ tasks' = [tasks EXCEPT !["mitm"] = "done"]
                       /\ rawClientTls' = [rest EXCEPT !.closed = TRUE]
                       /\ proxyClient' = SockClose(proxyClient)
                  ELSE LET rq == IF httpRegexpMatches(item.URL)
                                 THEN item
                                 ELSE [item EXCEPT !.URL = ParseInnerURL(inner.r.Host, @)]
                           cx == NewProxyCtx(rq, id, FALSE, inner.outer.UserData)
                       IN /\ inner' = [inner EXCEPT
                                 !.ctx = cx, !.req = rq, !.resp = Nil,
                                 !.err = IF rq.URL = Nil THEN "parse" ELSE NoError]
                          /\ innerLog' = Append(innerLog,
                                 [session |-> id, read |-> item, url |-> rq.URL,
                                  reqTrace |-> <<>>, chainResp |-> Nil, outbound |-> Nil,
                                  respTrace |-> <<>>, final |-> Nil, wrote |-> <<>>,
                                  whole |-> FALSE, ctx |-> cx])
                          /\ tasks' = [tasks EXCEPT !["mitm"] = "filterRequest"]
                          /\ rawClientTls' = rest
                          /\ UNCHANGED proxyClient
    /\ MitmDeferredClose
    /\ UNCHANGED <<KeepDestinationHeaders, reqHandlers, respHandlers, httpsHandlers, dialHooks>>
    /\ UNCHANGED <<pc, ctx, i, fwdRest>>
    /\ UNCHANGED <<targetSiteCon, todo, host, connTrace, dialLog, copyErr, cliSent, upSent>>
    /\ UNCHANGED <<certVars, poolVars, rtVars>>

\* The loop's filterRequest(req, ctx). A handler's panic ends the process.
\* With a response the round trip is skipped; without one the goroutine
\* returns if the URL's parse had failed ("Illegal URL"), else the proxy headers
\* are stripped from the request filterRequest returned (a nil request
\* panics there) and the round trip is next.
mitmFilterRequest ==
    /\ tasks["mitm"] = "filterRequest"
    /\ LET run == filterRequestRun(1, inner.req, Nil, inner.ctx, <<>>)
           entry == [innerLog[Len(innerLog)] EXCEPT
                        !.reqTrace = run.trace, !.chainResp = run.resp, !.ctx = run.ctx]
       IN /\ innerLog' = SetLast(innerLog, entry)
          /\ IF run.panic \/ (run.resp = Nil /\ run.req = Nil)
             THEN /\ MitmReturn("panic")
                  /\ inner' = [inner EXCEPT !.ctx = run.ctx, !.req = run.req,
                                            !.resp = run.resp]
             ELSE IF run.resp = Nil /\ inner.err # NoError
                  THEN /\ MitmReturn("done")
                       /\ inner' = [inner EXCEPT !.ctx = run.ctx, !.req = run.req,
                                                 !.resp = run.resp]
             ELSE IF run.resp = Nil
                  THEN /\ inner' = [inner EXCEPT
                              !.ctx = IF run.ctx.Req = run.req
                                      THEN [run.ctx EXCEPT !.Req = removeProxyHeaders(run.req)]
                                      ELSE run.ctx,
                              !.req = removeProxyHeaders(run.req),
                              !.resp = Nil]
                       /\ tasks' = [tasks EXCEPT !["mitm"] = "roundTrip"]
                       /\ UNCHANGED <<rawClientTls, proxyClient>>
                  ELSE /\ inner' = [inner EXCEPT !.ctx = run.ctx, !.req = run.req,
                                                 !.resp = run.resp]
                       /\ tasks' = [tasks EXCEPT !["mitm"] = "filterResponse"]
                       /\ UNCHANGED <<rawClientTls, proxyClient>>
    /\ MitmDeferredClose
    /\ UNCHANGED <<srvVars, pc, ctx, i, fwdRest>>
    /\ UNCHANGED <<targetSiteCon, todo, host, connTrace, dialLog, copyErr, cliSent, upSent>>
    /\ UNCHANGED <<sessLog, certVars, poolVars, rtVars>>

\* The round trip: the request goes to ctx.Proxy.Tr.RoundTrip; ok: whether
\* it returns a response. An error ends the goroutine.
mitmRoundTrip(ok) ==
    /\ tasks["mitm"] = "roundTrip"
    /\ innerLog' = SetLast(innerLog,
           [innerLog[Len(innerLog)] EXCEPT
               !.outbound = [via |-> MitmRoundTripper(inner.ctx), req |-> inner.req]])
    /\ IF ok
       THEN /\ inner' = [inner EXCEPT
                            !.resp = UpstreamResponse(inner.req, 200 + inner.ctx.Session)]
            /\ tasks' = [tasks EXCEPT !["mitm"] = "filterResponse"]
            /\ UNCHANGED <<rawClientTls, proxyClient>>
       ELSE /\ MitmReturn("done")
            /\ UNCHANGED inner
    /\ MitmDeferredClose
    /\ UNCHANGED <<srvVars, pc, ctx, i, fwdRest>>
    /\ UNCHANGED <<targetSiteCon, todo, host, connTrace, dialLog, copyErr, cliSent, upSent>>
    /\ UNCHANGED <<sessLog, certVars, poolVars, rtVars>>

\* The loop's filterResponse(resp, ctx) and the writing of the response over
\* TLS. "defer resp.Body.Close()" panics on a nil response, else the body's
\* Close is deferred to the goroutine's return. fail: which of the writes
\* fails (0: none); a failed write puts nothing out and ends the goroutine,
\* what was written before it stays written. After the status line
\* "resp.Request.Method" panics on a response without a request. Then the
\* header, the empty line and the body follow, and the loop goes round.
mitmWriteResponse(fail) ==
    /\ tasks["mitm"] = "filterResponse"
    /\ LET run == filterResponseRun(1, inner.resp, inner.ctx, <<>>)
           entry == [innerLog[Len(innerLog)] EXCEPT !.respTrace = run.trace,
                                                     !.final = run.resp, !.ctx = run.ctx]
           line == <<[line |-> MitmStatusLine(run.resp)]>>
       IN IF run.resp = Nil
          THEN /\ fail = 0
               /\ inner' = [inner EXCEPT !.ctx = run.ctx, !.resp = run.resp]
               /\ MitmReturn("panic")
               /\ innerLog' = SetLast(innerLog, entry)
          ELSE /\ inner' = [inner EXCEPT !.ctx = run.ctx, !.resp = run.resp,
                                         !.deferred = @ \cup {run.resp.Body.id}]
               /\ IF run.resp.Request = Nil
                  THEN /\ fail \in {0, 1}
                       /\ IF fail = 1
                          THEN /\ MitmReturn("done")
                               /\ innerLog' = SetLast(innerLog, entry)
                          ELSE /\ tasks' = [tasks EXCEPT !["mitm"] = "panic"]
                               /\ rawClientTls' = [rawClientTls EXCEPT !.out = @ \o line,
                                                                       !.closed = TRUE]
                               /\ proxyClient' = SockClose(proxyClient)
                               /\ innerLog' = SetLast(innerLog, [entry EXCEPT !.wrote = line])
                  ELSE LET writes == <<line>> \o MitmAfterStatusLine(run.resp)
                       IN /\ fail \in 0..Len(writes)
                          /\ fail # 0 => writes[fail] # <<>>
                          /\ IF fail = 0
                             THEN LET all == WrittenBy(writes, Len(writes))
                                  IN /\ tasks' = [tasks EXCEPT !["mitm"] = "loop"]
                                     /\ rawClientTls' = [rawClientTls EXCEPT !.out = @ \o all]
                                     /\ innerLog' = SetLast(innerLog,
                                            [entry EXCEPT !.wrote = all, !.whole = TRUE])
                                     /\ UNCHANGED proxyClient
                             ELSE LET part == WrittenBy(writes, fail - 1)
                                  IN /\ tasks' = [tasks EXCEPT !["mitm"] = "done"]
                                     /\ rawClientTls' = [rawClientTls EXCEPT
                                                            !.out = @ \o part,
                                                            !.closed = TRUE]
                                     /\ proxyClient' = SockClose(proxyClient)
                                     /\ innerLog' = SetLast(innerLog,
                                            [entry EXCEPT !.wrote = part])
    /\ MitmDeferredClose
    /\ UNCHANGED <<srvVars, pc, ctx, i, fwdRest>>
    /\ UNCHANGED <<targetSiteCon, todo, host, connTrace, dialLog, copyErr, cliSent, upSent>>
    /\ UNCHANGED <<sessLog, certVars, poolVars, rtVars>>

\* ------------------------------------------------------------ the relay
\* The bytes the tunnel's peers may send.
ClientBytes == {"A", "B"}
UpstreamBytes == {"X", "Y"}

\* The client sends one more tunnel byte (it has the 200 and has not shut
\* down its sending side).
ClientWrite(b) ==
    /\ pc = "returned:accepted"
    /\ ~proxyClient.peerEOF
    /\ Len(cliSent) < MaxBytes
    /\ cliSent' = Append(cliSent, b)
    /\ proxyClient' = [proxyClient EXCEPT !.in = Append(@, b)]
    /\ UNCHANGED srvVars
    /\ UNCHANGED <<pc, ctx, i>>
    /\ UNCHANGED fwdVars
    /\ UNCHANGED <<targetSiteCon, todo, host, connTrace, dialLog, tasks, copyErr, upSent>>
    /\ UNCHANGED extVars

\* The client shuts down its sending side (half-close).
ClientCloseWrite ==
    /\ pc = "returned:accepted"
    /\ ~proxyClient.peerEOF
    /\ proxyClient' = [proxyClient EXCEPT !.peerEOF = TRUE]
    /\ UNCHANGED srvVars
    /\ UNCHANGED <<pc, ctx, i>>
    /\ UNCHANGED fwdVars
    /\ UNCHANGED <<targetSiteCon, todo, host, connTrace, dialLog, tasks, copyErr,
                   cliSent, upSent>>
    /\ UNCHANGED extVars

\* The upstream sends one more tunnel byte.
UpstreamWrite(b) ==
    /\ pc = "returned:accepted"
    /\ ~targetSiteCon.peerEOF
    /\ Len(upSent) < MaxBytes
    /\ upSent' = Append(upSent, b)
    /\ targetSiteCon' = [targetSiteCon EXCEPT !.in = Append(@, b)]
    /\ UNCHANGED srvVars
    /\ UNCHANGED <<pc, ctx, i>>
    /\ UNCHANGED fwdVars
    /\ UNCHANGED <<proxyClient, todo, host, connTrace, dialLog, tasks, copyErr, cliSent>>
    /\ UNCHANGED extVars

\* The upstream shuts down its sending side.
UpstreamCloseWrite ==
    /\ pc = "returned:accepted"
    /\ ~targetSiteCon.peerEOF
    /\ targetSiteCon' = [targetSiteCon EXCEPT !.peerEOF = TRUE]
    /\ UNCHANGED srvVars
    /\ UNCHANGED <<pc, ctx, i>>
    /\ UNCHANGED fwdVars
    /\ UNCHANGED <<proxyClient, todo, host, connTrace, dialLog, tasks, copyErr,
                   cliSent, upSent>>
    /\ UNCHANGED extVars

\* One turn of io.Copy(dst, src): what was read from src is written to dst.
\* "more": bytes were copied; "err": the write failed (what was read is
\* lost); "eof": src is at EOF.
CopyOnce(dst, src) ==
    IF src.in # <<>>
    THEN IF WriteFails(dst)
         THEN [dst |-> dst, src |-> [src EXCEPT !.in = <<>>], result |-> "err"]
         ELSE [dst |-> SockWrite(dst, src.in), src |-> [src EXCEPT !.in = <<>>],
               result |-> "more"]
    ELSE [dst |-> dst, src |-> src, result |-> "eof"]

\* What copyAndClose does with its source once io.Copy has returned and the
\* destination's writing side is shut down.
copyAndCloseSrc(src) == CloseWrite(src)

\* go copyAndClose(ctx, targetTCP, proxyClientTCP): client -> upstream.
\* io.Copy runs while the client has bytes or has not reached EOF.
copyUp ==
    /\ tasks["up"] = "copy"
    /\ proxyClient.in # <<>> \/ proxyClient.peerEOF
    /\ LET c == CopyOnce(targetSiteCon, proxyClient)
       IN /\ targetSiteCon' = c.dst
          /\ proxyClient' = c.src
          /\ tasks' = [tasks EXCEPT !["up"] = IF c.result = "more" THEN "copy" ELSE "closeDst"]
          /\ copyErr' = [copyErr EXCEPT !["up"] = (c.result = "err")]
    /\ UNCHANGED srvVars
    /\ UNCHANGED <<pc, ctx, i>>
    /\ UNCHANGED fwdVars
    /\ UNCHANGED <<todo, host, connTrace, dialLog, cliSent, upSent>>
    /\ UNCHANGED extVars

\* go copyAndClose(ctx, proxyClientTCP, targetTCP): upstream -> client.
copyDown ==
    /\ tasks["down"] = "copy"
    /\ targetSiteCon.in # <<>> \/ targetSiteCon.peerEOF
    /\ LET c == CopyOnce(proxyClient, targetSiteCon)
       IN /\ proxyClient' = c.dst
          /\ targetSiteCon' = c.src
          /\ tasks' = [tasks EXCEPT !["down"] = IF c.result = "more" THEN "copy" ELSE "closeDst"]
          /\ copyErr' = [copyErr EXCEPT !["down"] = (c.result = "err")]
    /\ UNCHANGED srvVars
    /\ UNCHANGED <<pc, ctx, i>>
    /\ UNCHANGED fwdVars
    /\ UNCHANGED <<todo, host, connTrace, dialLog, cliSent, upSent>>
    /\ UNCHANGED extVars

\* copyAndClose after io.Copy: dst.CloseWrite(), then what it does to src.
closeUp ==
    /\ tasks["up"] \in {"closeDst", "closeSrc"}
    /\ IF tasks["up"] = "closeDst"
       THEN /\ targetSiteCon' = CloseWrite(targetSiteCon)
            /\ proxyClient' = proxyClient
            /\ tasks' = [tasks EXCEPT !["up"] = "closeSrc"]
       ELSE /\ proxyClient' = copyAndCloseSrc(proxyClient)
            /\ targetSiteCon' = targetSiteCon
            /\ tasks' = [tasks EXCEPT !["up"] = "done"]
    /\ UNCHANGED srvVars
    /\ UNCHANGED <<pc, ctx, i>>
    /\ UNCHANGED fwdVars
    /\ UNCHANGED <<todo, host, connTrace, dialLog, copyErr, cliSent, upSent>>
    /\ UNCHANGED extVars

closeDown ==
    /\ tasks["down"] \in {"closeDst", "closeSrc"}
    /\ IF tasks["down"] = "closeDst"
       THEN /\ proxyClient' = CloseWrite(proxyClient)
            /\ targetSiteCon' = targetSiteCon
            /\ tasks' = [tasks EXCEPT !["down"] = "closeSrc"]
       ELSE /\ targetSiteCon' = copyAndCloseSrc(targetSiteCon)
            /\ proxyClient' = proxyClient
            /\ tasks' = [tasks EXCEPT !["down"] = "done"]
    /\ UNCHANGED srvVars
    /\ UNCHANGED <<pc, ctx, i>>
    /\ UNCHANGED fwdVars
    /\ UNCHANGED <<todo, host, connTrace, dialLog, copyErr, cliSent, upSent>>
    /\ UNCHANGED extVars

vars == <<sess, KeepDestinationHeaders, reqHandlers, respHandlers, httpsHandlers, dialHooks,
          pc, ctx, req, resp, origBody, i, w, rIn,
          reqTrace, respTrace, outbound, closedBodies,
          proxyClient, targetSiteCon, todo, host, connTrace, dialLog, tasks, copyErr,
          cliSent, upSent, sessLog, CertStore, certs, genLog, fetchers,
          rawClientTls, inner, innerLog, transport, idleConn, pconns, lastPut,
          lastGet, calls, wire>>

NextServe ==
    \/ \E c \in CondChoices, k \in ReqKinds : OnRequestDo(c, k)
    \/ \E c \in CondChoices, k \in RespKinds : OnResponseDo(c, k)
    \/ SetKeepDestinationHeaders
    \/ \E r0 \in ForwardRequests, w0 \in Writers : ServeHTTP(r0, w0)
    \/ filterRequestStep
    \/ ServeHTTPAfterRequestChain
    \/ filterResponseStep
    \/ ServeHTTPWrite

SpecServe == Init /\ [][NextServe]_vars

NextConnect ==
    \/ \E c \in ConnectCondChoices, k \in HttpsKinds : OnRequestHandleConnect(c, k)
    \/ \E hook \in {"ConnectDial", "ConnectDialWithReq"} : SetConnectDial(hook)
    \/ \E r0 \in ConnectRequests, w0 \in ConnectWriters, hc \in BOOLEAN : handleHttps(r0, w0, hc)
    \/ handleHttpsStep
    \/ \E dialOK \in BOOLEAN, hcTarget \in BOOLEAN : handleHttpsAccept(dialOK, hcTarget)
    \/ \E tlsOK \in BOOLEAN : handleHttpsMitm(tlsOK)
    \/ handleHttpsNoCase

SpecConnect == Init /\ [][NextConnect]_vars

\* The tunnel of a server with no CONNECT handler and no dial hook (the
\* default server), with the peers and the two relay goroutines running.
NextSplice ==
    \/ \E r0 \in ConnectRequests, w0 \in ConnectWriters, hc \in BOOLEAN : handleHttps(r0, w0, hc)
    \/ \E dialOK \in BOOLEAN, hcTarget \in BOOLEAN : handleHttpsAccept(dialOK, hcTarget)
    \/ \E b \in ClientBytes : ClientWrite(b)
    \/ ClientCloseWrite
    \/ \E b \in UpstreamBytes : UpstreamWrite(b)
    \/ UpstreamCloseWrite
    \/ copyUp
    \/ copyDown
    \/ closeUp
    \/ closeDown

SpecSplice == Init /\ [][NextSplice]_vars

\* ------------------------------------------------- CertStorage.Fetch
\* Some call of Fetch for host h has returned a certificate.
FetchSucceeded(h) ==
    \E f \in 1..MaxFetchers :
        /\ fetchers[f].pc = "done" /\ fetchers[f].host = h /\ fetchers[f].err = NoError

\* A goroutine calls tcs.Fetch(h, gen) and Fetch does its Load. The call
\* remembers whether a Fetch for h had returned a certificate before it began.
FetchLoad(f, h) ==
    /\ CertStore
    /\ fetchers[f].pc = "idle"
    /\ \A g \in 1..(f - 1) : fetchers[g].pc # "idle"
    /\ fetchers' = [fetchers EXCEPT ![f] =
            FetchAfterLoad([IdleFetch EXCEPT !.host = h, !.stored = FetchSucceeded(h)],
                           certs[h])]
    /\ UNCHANGED <<CertStore, certs, genLog>>

\* The call's gen() runs and returns.
FetchGen(f, ok) ==
    /\ fetchers[f].pc = "gen"
    /\ LET g == GenCall(fetchers[f].host, ok)
       IN /\ genLog' = Append(genLog, g)
          /\ fetchers' = [fetchers EXCEPT ![f] = FetchAfterGen(@, g)]
    /\ UNCHANGED <<CertStore, certs>>

\* tcs.certs.Store(host, cert), and Fetch returns the certificate.
FetchStore(f) ==
    /\ fetchers[f].pc = "store"
    /\ certs' = [certs EXCEPT ![fetchers[f].host] = fetchers[f].cert]
    /\ fetchers' = [fetchers EXCEPT ![f].pc = "done"]
    /\ UNCHANGED <<CertStore, genLog>>

\* proxy.CertStore = NewCertStorage()
SetCertStore ==
    /\ pc = "config"
    /\ ~CertStore
    /\ CertStore' = TRUE
    /\ UNCHANGED <<certs, genLog, fetchers>>

\* Everything but the certificate store.
notCertVars == <<srvVars, pc, ctx, i, fwdVars, conVars, sessLog, mitmVars, poolVars, rtVars>>

\* A certificate store in use by several goroutines.
NextCertStore ==
    \/ SetCertStore /\ UNCHANGED notCertVars
    \/ \E f \in 1..MaxFetchers, h \in {<<"example.com">>, <<"www.reddit.com">>} :
          FetchLoad(f, h) /\ UNCHANGED notCertVars
    \/ \E f \in 1..MaxFetchers, ok \in BOOLEAN : FetchGen(f, ok) /\ UNCHANGED notCertVars
    \/ \E f \in 1..MaxFetchers : FetchStore(f) /\ UNCHANGED notCertVars

SpecCertStore == Init /\ [][NextCertStore]_vars

\* The scheduler lets every started call of Fetch run on.
SpecCertStoreFair ==
    /\ SpecCertStore
    /\ \A f \in 1..MaxFetchers :
          /\ WF_vars(\E ok \in BOOLEAN : FetchGen(f, ok) /\ UNCHANGED notCertVars)
          /\ WF_vars(FetchStore(f) /\ UNCHANGED notCertVars)

\* ------------------------------------------------- the MITM server
\* The CONNECT requests of the MITM scenarios: to example.com with and
\* without a port.
MitmConnectRequests == {r0 \in ConnectRequests : r0.Host \in {Example, ExampleTLS}}

\* A hijackable writer.
MitmWriter == [Hijacker |-> TRUE, HijackFails |-> FALSE]

\* A server with AlwaysMitm, request and response handlers and perhaps a
\* certificate store, serving the inner requests of one MITM tunnel.
NextMitm ==
    \/ \E k \in {"AlwaysMitm", "tagMitm"} : OnRequestHandleConnect(<<>>, k)
    \/ \E k \in ReqKinds : OnRequestDo(<<>>, k)
    \/ \E k \in RespKinds : OnResponseDo(<<>>, k)
    \/ SetCertStore /\ UNCHANGED notCertVars
    \/ \E r0 \in MitmConnectRequests : pc = "config" /\ handleHttps(r0, MitmWriter, TRUE)
    \/ handleHttpsStep
    \/ \E tlsOK \in BOOLEAN : handleHttpsMitm(tlsOK)
    \/ \E ok \in BOOLEAN : mitmHandshake(ok)
    \/ \E item \in InnerItems : ClientSendsInner(item)
    \/ ClientEndsTls
    \/ mitmReadRequest
    \/ mitmFilterRequest
    \/ \E ok \in BOOLEAN : mitmRoundTrip(ok)
    \/ \E fail \in 0..6 : mitmWriteResponse(fail)

SpecMitm == Init /\ [][NextMitm]_vars

\* ------------------------------------------------- transport.Transport
\* pc.isBroken()
isBroken(p) == p.broken

\* pc.close(): the connection is marked broken (and its socket closed).
pconnClose(ps, c) == [ps EXCEPT ![c].broken = TRUE]

\* (C28 mutant: the last connection is returned, broken or not.)
getIdleConnLoop_Unchecked(m, ps, key) ==
    IF m[key] = <<>>
    THEN [m |-> m, conn |-> 0]
    ELSE [m |-> [m EXCEPT ![key] = SubSeq(@, 1, Len(@) - 1)],
          conn |-> m[key][Len(m[key])]]

\* getIdleConn(cm) with key = cm.String(): the map is made if it was nil;
\* connections are taken from the end of the key's list until one is not
\* broken (conn 0: the list ran out, nil is returned).
RECURSIVE getIdleConnLoop(_, _, _)
getIdleConnLoop(m, ps, key) ==
    IF m[key] = <<>>
    THEN [m |-> m, conn |-> 0]
    ELSE LET pconn == m[key][Len(m[key])]
             rest == [m EXCEPT ![key] = SubSeq(@, 1, Len(@) - 1)]
         IN IF ~isBroken(ps[pconn])
            THEN [m |-> rest, conn |-> pconn]
            ELSE getIdleConnLoop(rest, ps, key)

getIdleConn(idle, ps, key) ==
    LET got == getIdleConnLoop(idle.m, ps, key)
    IN [idleConn |-> [made |-> TRUE, m |-> got.m], conn |-> got.conn]

\* What a call of getIdleConn is remembered by until the next call on the
\* pool: the key, the pool and the broken connections as it found them, the
\* pool as it left it, and the connection it returned (0: nil).
GetRecord(key, idle, ps, got) ==
    [key |-> key, before |-> idle.m, broken |-> {c \in 1..MaxConns : ps[c].broken},
     after |-> got.idleConn.m, conn |-> got.conn]

\* (C19 mutant: a broken connection is taken like any other.)
putIdleConn_BrokenToo(tcfg, idle, ps, c) ==
    LET key == ps[c].cacheKey
        max == IF tcfg.MaxIdleConnsPerHost = 0
               THEN DefaultMaxIdleConnsPerHost
               ELSE tcfg.MaxIdleConnsPerHost
    IN IF tcfg.DisableKeepAlives \/ tcfg.MaxIdleConnsPerHost < 0
       THEN [ok |-> FALSE, idleConn |-> idle, pconns |-> pconnClose(ps, c), panic |-> FALSE]
       ELSE IF Len(idle.m[key]) >= max
       THEN [ok |-> FALSE, idleConn |-> idle, pconns |-> pconnClose(ps, c), panic |-> FALSE]
       ELSE [ok |-> TRUE, idleConn |-> [idle EXCEPT !.m[key] = Append(@, c)],
             pconns |-> ps, panic |-> FALSE]

\* t.putIdleConn(pconn): with keep-alives disabled or a negative
\* MaxIdleConnsPerHost the connection is closed and false returned; a broken
\* connection gets false; max is MaxIdleConnsPerHost, or
\* DefaultMaxIdleConnsPerHost when that is 0; with max or more connections
\* under the key the connection is closed and false returned; else it is
\* appended to the key's list (which panics on a nil map) and true returned.
putIdleConn(tcfg, idle, ps, c) ==
    LET key == ps[c].cacheKey
        max == IF tcfg.MaxIdleConnsPerHost = 0
               THEN DefaultMaxIdleConnsPerHost
               ELSE tcfg.MaxIdleConnsPerHost
    IN IF tcfg.DisableKeepAlives \/ tcfg.MaxIdleConnsPerHost < 0
       THEN [ok |-> FALSE, idleConn |-> idle, pconns |-> pconnClose(ps, c), panic |-> FALSE]
       ELSE IF isBroken(ps[c])
       THEN [ok |-> FALSE, idleConn |-> idle, pconns |-> ps, panic |-> FALSE]
       ELSE IF Len(idle.m[key]) >= max
       THEN [ok |-> FALSE, idleConn |-> idle, pconns |-> pconnClose(ps, c), panic |-> FALSE]
       ELSE IF ~idle.made
       THEN [ok |-> FALSE, idleConn |-> idle, pconns |-> ps, panic |-> TRUE]
       ELSE [ok |-> TRUE, idleConn |-> [idle EXCEPT !.m[key] = Append(@, c)],
             pconns |-> ps, panic |-> FALSE]

\* The connections some list of the pool holds.
Pooled == {c \in 1..MaxConns :
              \E k \in CacheKeys : \E j \in 1..Len(idleConn.m[k]) : idleConn.m[k][j] = c}

\* Everything but the transport.
notPoolVars == <<srvVars, pc, ctx, i, fwdVars, conVars, sessLog, certVars, mitmVars, calls, wire>>

\* t := &Transport{DisableKeepAlives: dka, MaxIdleConnsPerHost: max}, before
\* the transport is used.
NewTransport(dka, max) ==
    /\ ~idleConn.made
    /\ transport.DisableKeepAlives = FALSE /\ transport.MaxIdleConnsPerHost = 0
    /\ transport' = [transport EXCEPT !.DisableKeepAlives = dka,
                                      !.MaxIdleConnsPerHost = max]
    /\ transport' # transport
    /\ UNCHANGED <<idleConn, pconns, lastPut, lastGet>>
    /\ UNCHANGED notPoolVars

\* The persistConn getConn makes for cm and what its reader and writer
\* wrap. The struct is made with conn: the dialed socket; for https the
\* local conn then becomes tls.Client(conn, ...), the field pconn.conn is
\* not assigned again, and pconn.br / pconn.bw are made over pconn.conn.
NewWire(cm) ==
    LET pconnConn == "raw"
    IN [NoWire EXCEPT !.tls = (cm.targetSchema = "https"),
                      !.conn = pconnConn, !.br = pconnConn, !.bw = pconnConn,
                      !.readLoop = "started"]

\* Everything the round trip leaves alone.
notRtVars == <<srvVars, pc, ctx, i, fwdVars, conVars, sessLog, certVars, mitmVars>>

\* t.getConn(cm): an idle connection for the key if getIdleConn has one,
\* else a dialed one (dialOK: whether the dial succeeds; for https tlsOK:
\* whether the TLS handshake and the hostname check succeed), with its
\* reader and writer made and its read loop started. The caller holds the
\* connection it got.
getConn(cm, dialOK, tlsOK) ==
    /\ LET key == cmString(cm)
           got == getIdleConn(idleConn, pconns, key)
           free == {c \in 1..MaxConns : ~pconns[c].made}
           new == CHOOSE c \in free : \A d \in free : c <= d
       IN /\ idleConn' = got.idleConn
          /\ IF got.conn # 0 \/ ~dialOK \/ (cm.targetSchema = "https" /\ ~tlsOK)
             THEN UNCHANGED <<pconns, wire>>
             ELSE /\ free # {}
                  /\ pconns' = [pconns EXCEPT
                                   ![new] = [made |-> TRUE, cacheKey |-> key, broken |-> FALSE]]
                  /\ wire' = [wire EXCEPT ![new] = NewWire(cm)]
          /\ lastGet' = GetRecord(key, idleConn, pconns, got)
    /\ <<idleConn', pconns'>> # <<idleConn, pconns>>
    /\ UNCHANGED <<transport, lastPut, calls>>
    /\ UNCHANGED notRtVars

\* pc.close() on a connection, held or idle (a failed read or write, or the
\* peer closing it).
persistConnClose(c) ==
    /\ pconns[c].made
    /\ ~pconns[c].broken
    /\ pconns' = pconnClose(pconns, c)
    /\ lastGet' = Nil
    /\ UNCHANGED <<transport, idleConn, lastPut>>
    /\ UNCHANGED notPoolVars

\* A holder of connection c (one that getConn handed out) calls
\* t.putIdleConn(c).
putIdleConnCall(c) ==
    /\ pconns[c].made
    /\ c \notin Pooled
    /\ LET out == putIdleConn(transport, idleConn, pconns, c)
           key == pconns[c].cacheKey
       IN /\ ~out.panic
          /\ idleConn' = out.idleConn
          /\ pconns' = out.pconns
          /\ lastPut' = [conn |-> c, key |-> key, ok |-> out.ok,
                         wasBroken |-> pconns[c].broken,
                         lenBefore |-> Len(idleConn.m[key]),
                         listAfter |-> out.idleConn.m[key],
                         added |-> out.idleConn # idleConn,
                         closed |-> out.pconns[c].broken]
    /\ lastGet' = Nil
    /\ UNCHANGED transport
    /\ UNCHANGED notPoolVars

NextPool ==
    \/ \E dka \in BOOLEAN, max \in -1..2 : NewTransport(dka, max)
    \/ \E cm \in ConnectMethods, dialOK, tlsOK \in BOOLEAN : getConn(cm, dialOK, tlsOK)
    \/ \E c \in 1..MaxConns : persistConnClose(c)
    \/ \E c \in 1..MaxConns : putIdleConnCall(c)

SpecPool == Init /\ [][NextPool]_vars

\* ------------------------------------------------- the round trip
\* t.DetailedRoundTrip(req) up to pconn.roundTrip: getConn(cm) takes an
\* idle connection of the key if there is one, else dials (dialOK), makes
\* the persistConn, for https does the TLS handshake and the hostname check
\* (tlsOK), and starts the read loop. An error ends the call.
DetailedRoundTrip(k, cm, hdr, dialOK, tlsOK) ==
    /\ calls[k].pc = "idle"
    /\ \A j \in 1..(k - 1) : calls[j].pc # "idle"
    /\ LET key == cmString(cm)
           got == getIdleConn(idleConn, pconns, key)
           free == {c \in 1..MaxConns : ~pconns[c].made}
           new == CHOOSE c \in free : \A d \in free : c <= d
       IN /\ idleConn' = got.idleConn
          /\ lastGet' = GetRecord(key, idleConn, pconns, got)
          /\ IF got.conn # 0
             THEN /\ calls' = [calls EXCEPT ![k] = [@ EXCEPT !.pc = "roundTrip",
                                                             !.conn = got.conn,
                                                             !.Header = hdr]]
                  /\ UNCHANGED <<pconns, wire>>
             ELSE IF ~dialOK \/ (cm.targetSchema = "https" /\ ~tlsOK)
             THEN /\ calls' = [calls EXCEPT ![k] = [@ EXCEPT !.pc = "returned",
                                  !.Header = hdr,
                                  !.err = IF dialOK THEN "handshake" ELSE "dial"]]
                  /\ UNCHANGED <<pconns, wire>>
             ELSE /\ free # {}
                  /\ pconns' = [pconns EXCEPT
                                   ![new] = [made |-> TRUE, cacheKey |-> key, broken |-> FALSE]]
                  /\ wire' = [wire EXCEPT ![new] = NewWire(cm)]
                  /\ calls' = [calls EXCEPT ![k] = [@ EXCEPT !.pc = "roundTrip",
                                                             !.conn = new,
                                                             !.Header = hdr]]
    /\ UNCHANGED <<transport, lastPut>>
    /\ UNCHANGED notRtVars

\* pc.readLoop(): alive := false, so "for alive" is left before its first
\* turn and the goroutine ends.
readLoop(c) ==
    /\ wire[c].readLoop = "started"
    /\ LET alive == FALSE
       IN wire' = [wire EXCEPT ![c].readLoop = IF alive THEN "peek" ELSE "exited"]
    /\ UNCHANGED <<poolVars, lastGet, calls>>
    /\ UNCHANGED notRtVars

\* t.DisableCompression = true, before the transport is used.
SetDisableCompression ==
    /\ \A k \in 1..MaxCalls : calls[k].pc = "idle"
    /\ ~transport.DisableCompression
    /\ transport' = [transport EXCEPT !.DisableCompression = TRUE]
    /\ UNCHANGED <<idleConn, pconns, lastPut, lastGet, calls, wire>>
    /\ UNCHANGED notRtVars

\* req.Request.Write(pc.bw): the request's own header goes out; the extra
\* headers of the transportRequest are not handed to it.
RequestWrite(k, treq) == [req |-> k, Header |-> treq.Header]

\* pc.roundTrip(req): with compression not disabled and no Accept-Encoding
\* in the request, requestedGzip is set and Accept-Encoding: gzip put in
\* the request's extra headers; numExpectedResponses++; the request is
\* written to pc.bw and flushed (wok: whether the write succeeds; if not the
\* connection is closed and the error returned); the request, the reply
\* channel and requestedGzip go into pc.reqch, and the caller waits on the
\* reply channel.
persistConnRoundTrip(k, wok) ==
    /\ calls[k].pc = "roundTrip"
    /\ LET c == calls[k].conn
           requestedGzip == /\ ~transport.DisableCompression
                            /\ HeaderGet(calls[k].Header, "Accept-Encoding") = ""
           treq == [calls[k] EXCEPT
                       !.extra = IF requestedGzip
                                 THEN HeaderSet(@, "Accept-Encoding", "gzip")
                                 ELSE @]
           out == RequestWrite(k, treq)
       IN IF ~wok
          THEN /\ pconns' = pconnClose(pconns, c)
               /\ wire' = [wire EXCEPT ![c].numExpectedResponses = @ + 1]
               /\ calls' = [calls EXCEPT ![k] = [treq EXCEPT !.pc = "returned",
                                                             !.err = "write"]]
          ELSE /\ wire' = [wire EXCEPT
                              ![c].numExpectedResponses = @ + 1,
                              ![c].rawOut = IF wire[c].bw = "raw" THEN Append(@, out) ELSE @,
                              ![c].tlsOut = IF wire[c].bw = "tls" THEN Append(@, out) ELSE @,
                              ![c].reqch = Append(@, [req |-> k, ch |-> k,
                                                      addedGzip |-> requestedGzip])]
               /\ calls' = [calls EXCEPT ![k] = [treq EXCEPT !.pc = "await"]]
               /\ UNCHANGED pconns
    /\ UNCHANGED <<transport, idleConn, lastPut, lastGet>>
    /\ UNCHANGED notRtVars

\* The upstream answers a request it got the way its scheme has it (in the
\* clear on an http connection, through TLS on an https one) with one
\* well-formed response, which arrives at the connection's socket.
UpstreamResponds(c) ==
    /\ pconns[c].made /\ ~pconns[c].broken
    /\ LET got == IF wire[c].tls THEN wire[c].tlsOut ELSE wire[c].rawOut
           answered == IF wire[c].tls THEN wire[c].tlsIn ELSE wire[c].rawIn
       IN /\ Len(answered) < Len(got)
          /\ LET rs == [resp |-> got[Len(answered) + 1].req]
             IN wire' = [wire EXCEPT
                            ![c].rawIn = IF wire[c].tls THEN @ ELSE Append(@, rs),
                            ![c].tlsIn = IF wire[c].tls THEN Append(@, rs) ELSE @]
    /\ UNCHANGED <<poolVars, lastGet, calls>>
    /\ UNCHANGED notRtVars

NextRoundTrip ==
    \/ SetDisableCompression
    \/ \E k \in 1..MaxCalls, cm \in ConnectMethods, hdr \in CallerHeaders,
          dialOK, tlsOK \in BOOLEAN :
           DetailedRoundTrip(k, cm, hdr, dialOK, tlsOK)
    \/ \E c \in 1..MaxConns : readLoop(c)
    \/ \E k \in 1..MaxCalls, wok \in BOOLEAN : persistConnRoundTrip(k, wok)
    \/ \E c \in 1..MaxConns : UpstreamResponds(c)

SpecRoundTrip == Init /\ [][NextRoundTrip]_vars

\* The goroutines run, the upstream answers.
SpecRoundTripFair == SpecRoundTrip /\ WF_vars(NextRoundTrip)

\* ================================================================= claims
\* What an upstream would answer in the pass-through scenario.
UpstreamBody == <<"hello">>

\* filterRequest has returned to ServeHTTP.
RequestChainOver == pc = "filterRequest" /\ i > Len(reqHandlers)

\* Every registered request handler answers (request, nil) whatever it is given.
OnlyForwardingHandlers ==
    \A k \in 1..Len(reqHandlers) : reqHandlers[k].kind \in {"pass", "rewrite"}

\* Every registered response handler hands its response on.
OnlyKeepingHandlers ==
    \A k \in 1..Len(respHandlers) : respHandlers[k].kind = "keep"

\* C1: the request chain ends at the first handler that returns a response: no
\* handler is called after it, and that response is what filterRequest returns.
C1_FirstResponseEndsChain ==
    \A k \in 1..Len(reqTrace) :
        reqTrace[k].resp # Nil =>
            /\ k = Len(reqTrace)
            /\ RequestChainOver => resp = reqTrace[k].resp

\* C2: when every registered request handler returns (request, nil), all of
\* them are called, in registration order, each with the request its
\* predecessor returned.
C2_NullResponseContinues ==
    (RequestChainOver /\ OnlyForwardingHandlers) =>
        /\ Len(reqTrace) = Len(reqHandlers)
        /\ \A k \in 1..Len(reqTrace) :
              /\ reqTrace[k].idx = k
              /\ k > 1 => reqTrace[k].in = reqTrace[k - 1].req

\* C3: when the request chain ends without a response, exactly one request has
\* gone upstream before the response chain runs; with no handlers at all, the
\* client gets the upstream's 200 and its body.
C3_RoundTripWhenNoResponse ==
    /\ (pc = "filterResponse" /\ origBody = 0) => Len(outbound) = 1
    /\ (pc \in Ended /\ rIn.URL.Scheme # "" /\ Registered = 0) =>
            (w.Status = 200 /\ w.Body = UpstreamBody)

\* The first response a request handler returned in this session.
FirstCanned ==
    LET k == CHOOSE k \in 1..Len(reqTrace) :
                 /\ reqTrace[k].resp # Nil
                 /\ \A j \in 1..(k - 1) : reqTrace[j].resp = Nil
    IN reqTrace[k].resp

\* C4: when a request handler returned a canned response (and the response
\* handlers hand it on), nothing goes upstream and the client receives its
\* status code, its headers and its body.
C4_CannedResponseReachesClient ==
    (/\ pc \in Ended
     /\ \E k \in 1..Len(reqTrace) : reqTrace[k].resp # Nil
     /\ OnlyKeepingHandlers) =>
        /\ outbound = <<>>
        /\ w.Status = FirstCanned.StatusCode
        /\ \A h \in DOMAIN FirstCanned.Header :
              h \in DOMAIN w.Header /\ w.Header[h] = FirstCanned.Header[h]
        /\ w.Body = FirstCanned.Body.data

\* The call went past the response chain with no response.
EndedWithoutResponse == pc \in {"returned:500", "panic:nilRequest"}

\* C5: a missing final response makes ServeHTTP write status 500 with the
\* context's error text as body if there is one, the generic "response is
\* nil" message otherwise, and return.
C5_NilResponseWrites500 ==
    EndedWithoutResponse =>
        /\ pc = "returned:500"
        /\ w.Status = StatusInternalServerError
        /\ IF ctx.Error # NoError
           THEN w.Body = <<ctx.Error, "\n">>
           ELSE w.Body = <<"error read response ">> \o rIn.URL.Host
                         \o <<" : response is nil", "\n">>

\* C6: a request whose URL is not absolute makes ServeHTTP return at once: no
\* handler of either chain is called, nothing goes upstream and nothing is
\* written to the client.
C6_NotAbsoluteReturnsSilently ==
    (rIn # Nil /\ rIn.Method # "CONNECT" /\ rIn.URL.Scheme = "") =>
        /\ pc = "returned:notAbs"
        /\ reqTrace = <<>>
        /\ respTrace = <<>>
        /\ outbound = <<>>
        /\ w \in Writers

\* C6 witness: handlers are registered and a request without a scheme was served.
C6_Witness ==
    /\ pc = "returned:notAbs"
    /\ Len(reqHandlers) > 0
    /\ Len(respHandlers) > 0
    /\ rIn.URL.Scheme = ""

\* handleHttps has left its loop over the CONNECT handlers and stands before
\* the switch.
ConnectChoiceOver == pc = "httpsHandlers" /\ i > Len(httpsHandlers)

\* C7: the CONNECT handlers are asked in registration order; the first that
\* returns an action fixes (action, host) and none is asked after it; if none
\* returns an action the choice is Accept with the host of the request URL.
C7_FirstConnectActionWins ==
    /\ \A k \in 1..Len(connTrace) :
          /\ connTrace[k].idx = k
          /\ connTrace[k].action # Nil =>
                /\ k = Len(connTrace)
                /\ ConnectChoiceOver =>
                      (todo = connTrace[k].action /\ host = connTrace[k].newhost)
    /\ (ConnectChoiceOver /\ \A k \in 1..Len(connTrace) : connTrace[k].action = Nil) =>
          /\ Len(connTrace) = Len(httpsHandlers)
          /\ todo.Action = ConnectAccept
          /\ host = rIn.URL.Host

\* C7 witness: a handler chose MITM and a handler registered after it was not asked.
C7_Witness ==
    /\ ConnectChoiceOver
    /\ Len(connTrace) < Len(httpsHandlers)
    /\ todo.Action = ConnectMitm
    /\ connTrace[Len(connTrace)].action = MitmConnect

\* The upstream dial of this session failed.
DialFailed == dialLog # <<>> /\ dialLog[Len(dialLog)].err # <<>>

\* C8: after a failed dial in Accept mode the client has been sent
\* "HTTP/1.1 502 Bad Gateway" with the dial error as body and its socket is
\* closed; "200 Connection established" was not written and no relay
\* goroutine was started.
C8_DialFailureAnswers502 ==
    DialFailed =>
        LET err == dialLog[Len(dialLog)].err
            out == proxyClient.out
        IN /\ Len(out) > Len(err)
           /\ out[1] = "HTTP/1.1 502 Bad Gateway\r\n"
           /\ SubSeq(out, Len(out) - Len(err) + 1, Len(out)) = err
           /\ proxyClient.closed
           /\ \A k \in 1..Len(out) : out[k] # Established
           /\ tasks["up"] = "idle" /\ tasks["down"] = "idle"
           /\ targetSiteCon = Nil

\* C8 witness: handleHttps returned after a failed dial.
C8_Witness ==
    /\ pc = "returned:dialError"
    /\ todo.Action = ConnectAccept
    /\ DialFailed
    /\ proxyClient.closed

\* The tunnel bytes the client has received (what follows the 200 line).
TunnelBytes(sock) == Tail(sock.out)

\* C9: once the tunnel is accepted, whatever the peers send and however the
\* two copy goroutines interleave, no byte is duplicated, dropped or
\* reordered: what a peer has sent is what the other side has received,
\* followed by what is still waiting to be copied.
C9_SpliceDeliversVerbatim ==
    pc = "returned:accepted" =>
        /\ cliSent = targetSiteCon.out \o proxyClient.in
        /\ upSent = TunnelBytes(proxyClient) \o targetSiteCon.in

\* C10: when a direction's source reaches EOF its goroutine shuts down
\* writing on its destination and the other direction stays usable: as
\* long as the other goroutine is copying, writing to its destination works.
C10_HalfCloseKeepsOtherDirection ==
    /\ (tasks["up"] = "done" /\ ~copyErr["up"]) =>
          /\ targetSiteCon.wrShut
          /\ tasks["down"] = "copy" => ~WriteFails(proxyClient)
    /\ (tasks["down"] = "done" /\ ~copyErr["down"]) =>
          /\ proxyClient.wrShut
          /\ tasks["up"] = "copy" => ~WriteFails(targetSiteCon)

\* handleHttps returned with the action Reject chosen.
RejectChosen == pc \in ConnectEnded /\ todo # Nil /\ todo.Action = ConnectReject

\* C11: when the chosen CONNECT action is Reject, handleHttps has closed the
\* hijacked client socket when it returns; no upstream was dialed and no
\* relay goroutine runs.
C11_RejectClosesClient ==
    RejectChosen =>
        /\ proxyClient.closed
        /\ dialLog = <<>>
        /\ targetSiteCon = Nil
        /\ tasks["up"] = "idle" /\ tasks["down"] = "idle"

\* The calls of a generator made for host h so far.
GenCallsFor(h) == {k \in 1..Len(genLog) : genLog[k].host = h}

\* C16: when gen returns an error, Fetch returns that error and no
\* certificate, and the store is left as it was (nothing is stored for the
\* host, the other hosts' entries are untouched); a Fetch that finds nothing
\* stored for its host calls gen, so a later call can succeed.
C16_GenErrorNotCached ==
    [][\A f \in 1..MaxFetchers :
          /\ (fetchers[f].pc = "gen" /\ fetchers'[f].pc # "gen"
                /\ genLog'[Len(genLog')].err # NoError) =>
                /\ fetchers'[f].pc = "done"
                /\ fetchers'[f].err = genLog'[Len(genLog')].err
                /\ fetchers'[f].cert = Nil
                /\ certs' = certs
          /\ (fetchers[f].pc = "idle" /\ fetchers'[f].pc # "idle"
                /\ certs[fetchers'[f].host] = Nil) =>
                fetchers'[f].pc = "gen"]_vars

\* C16 witness: a generator failed for a host, a later generator call for the
\* same host succeeded and its certificate is stored, while a call of Fetch
\* has returned the error.
C16_Witness ==
    \E f \in 1..MaxFetchers, a, b \in 1..Len(genLog) :
        /\ a < b
        /\ genLog[a].host = genLog[b].host
        /\ genLog[a].err # NoError
        /\ genLog[b].err = NoError
        /\ certs[genLog[b].host] = genLog[b].cert
        /\ fetchers[f].pc = "done" /\ fetchers[f].err # NoError
        /\ fetchers[f].host = genLog[a].host

\* What holds of the calls of Fetch in every state (C17).
FetchCallsSound ==
    /\ \A f \in 1..MaxFetchers :
          (fetchers[f].pc = "done" /\ fetchers[f].err = NoError) =>
              /\ \E k \in GenCallsFor(fetchers[f].host) : genLog[k].cert = fetchers[f].cert
              /\ fetchers[f].stored => fetchers[f].gens = 0
    /\ \A h \in Hostnames :
          Cardinality(GenCallsFor(h)) <=
              Cardinality({f \in 1..MaxFetchers :
                              fetchers[f].pc # "idle" /\ fetchers[f].host = h})

\* C17: every call of Fetch ends; a call that returns a certificate returns
\* one that some generator call for its host produced (so the generator ran
\* at least once); the generator runs at most once per call; a call that
\* begins after a Fetch for the same host has returned a certificate does not
\* call the generator.
C17_FetchReturnsGenerated ==
    /\ []FetchCallsSound
    /\ \A f \in 1..MaxFetchers :
          (fetchers[f].pc # "idle") ~> (fetchers[f].pc = "done")

\* C17 witness: two calls for one host both ran the generator (they raced),
\* and a third, begun after one of them had returned, got a certificate
\* without running it.
C17_Witness ==
    \E f, g, e \in 1..MaxFetchers :
        /\ f # g /\ e # f /\ e # g
        /\ fetchers[f].host = fetchers[g].host /\ fetchers[e].host = fetchers[f].host
        /\ fetchers[f].pc = "done" /\ fetchers[f].gens = 1 /\ fetchers[f].err = NoError
        /\ fetchers[g].pc = "done" /\ fetchers[g].gens = 1 /\ fetchers[g].err = NoError
        /\ fetchers[e].pc = "done" /\ fetchers[e].stored /\ fetchers[e].gens = 0
        /\ fetchers[e].cert # Nil


\* The inner requests whose response header went out to the client.
HeaderWritten == {k \in 1..Len(innerLog) : Len(innerLog[k].wrote) >= 3}

\* What went out after the empty line that ends the header.
BodyWritten(e) == SubSeq(e.wrote, 4, Len(e.wrote))

\* C12: every response written to a MITM'd client for a non-HEAD inner
\* request carries Transfer-Encoding: chunked and Connection: close and no
\* Content-Length, and its body goes out as chunks ended by the zero-length
\* chunk (all of it, unless a write failed and ended the tunnel, when what
\* went out is the beginning of just that); for a HEAD request Connection:
\* close is set, Content-Length is kept and no body is written.
C12_MitmFraming ==
    \A k \in HeaderWritten :
        LET e == innerLog[k]
            hdr == e.wrote[2].Header
            body == BodyWritten(e)
        IN /\ HeaderGet(hdr, "Connection") = "close"
           /\ hdr["Connection"] = <<"close">>
           /\ IF e.read.Method = "HEAD"
              THEN /\ body = <<>>
                   /\ ("Content-Length" \in DOMAIN hdr)
                          = ("Content-Length" \in DOMAIN e.final.Header)
                   /\ "Content-Length" \in DOMAIN hdr
                          => hdr["Content-Length"] = e.final.Header["Content-Length"]
              ELSE /\ "Transfer-Encoding" \in DOMAIN hdr
                   /\ hdr["Transfer-Encoding"] = <<"chunked">>
                   /\ "Content-Length" \notin DOMAIN hdr
                   /\ LET n == Len(e.final.Body.data)
                          framed == [j \in 1..(n + 2) |->
                                        IF j <= n THEN [chunk |-> e.final.Body.data[j]]
                                        ELSE IF j = n + 1 THEN [raw |-> "0\r\n"]
                                        ELSE [raw |-> "\r\n"]]
                      IN /\ Len(body) <= n + 2
                         /\ body = SubSeq(framed, 1, Len(body))
                         /\ e.whole => body = framed
                         /\ ~e.whole => (tasks["mitm"] = "done" /\ k = Len(innerLog)
                                         /\ rawClientTls.closed)

\* One tunnel answered a GET from upstream (Content-Length: 5 came with the
\* response) and a HEAD.
C12_Witness ==
    /\ \E k \in HeaderWritten :
           /\ innerLog[k].read.Method = "GET"
           /\ innerLog[k].outbound # Nil
           /\ innerLog[k].whole
           /\ "Content-Length" \in DOMAIN innerLog[k].final.Header
           /\ BodyWritten(innerLog[k])
                  = <<[chunk |-> "hello"], [raw |-> "0\r\n"], [raw |-> "\r\n"]>>
    /\ \E k \in HeaderWritten :
           /\ innerLog[k].read.Method = "HEAD"
           /\ "Content-Length" \in DOMAIN innerLog[k].wrote[2].Header


\* The configuration of examples/ssltrip: AlwaysMitm and, first among the
\* request handlers, the one that turns scheme https into http.
SslTripConfigured ==
    /\ httpsHandlers # <<>> /\ httpsHandlers[1].kind = "AlwaysMitm"
    /\ reqHandlers # <<>> /\ reqHandlers[1] = [reqConds |-> <<>>, kind |-> "rewrite"]

\* The MITM server with a client that also sends requests whose URL is
\* neither in origin form nor an https URL: OPTIONS * and a GET with an
\* absolute http URL.
NextMitmUrls ==
    \/ NextMitm
    \/ \E item \in {AsteriskRequest, AbsoluteHttpRequest} : ClientSendsInner(item)

SpecMitmUrls == Init /\ [][NextMitmUrls]_vars

\* What the ssltrip configuration does with the inner request of log entry
\* e, once its URL has been rewritten to https://<CONNECT host><path>: that
\* URL is what the handler is given, the request sent upstream is the same
\* method to http://<CONNECT host><path>, and the response to a GET goes
\* back chunked with Connection: close.
SslTripped(k) ==
    LET e == innerLog[k]
        secure == [Scheme |-> "https", Host |-> rIn.Host, Path |-> e.read.URL.Path]
        plain == [secure EXCEPT !.Scheme = "http"]
    IN /\ e.url = secure
       /\ SslTripConfigured =>
             /\ e.reqTrace # <<>> => e.reqTrace[1].in.URL = secure
             /\ e.outbound # Nil =>
                   /\ e.outbound.req.Method = e.read.Method
                   /\ e.outbound.req.URL = plain
             /\ (k \in HeaderWritten /\ e.read.Method = "GET") =>
                   /\ HeaderGet(e.wrote[2].Header, "Transfer-Encoding") = "chunked"
                   /\ HeaderGet(e.wrote[2].Header, "Connection") = "close"

\* An inner URL in origin form: no scheme, no host, a path that begins
\* with "/".
OriginForm(u) == u.Scheme = "" /\ u.Host = <<>> /\ u.Path # <<>> /\ u.Path[1] = "/"

\* C13 as stated: with AlwaysMitm and a request handler that changes scheme
\* https to http, any inner URL not already starting with https:// is
\* rewritten to https://<CONNECT host><path> before the handler sees it,
\* and the request goes upstream as http://<CONNECT host><path>.
C13_AnyInnerURL ==
    \A k \in 1..Len(innerLog) :
        (innerLog[k].read # Malformed /\ innerLog[k].read.URL.Scheme # "https")
            => SslTripped(k)

\* C13: with AlwaysMitm and a request handler that changes scheme https to
\* http, an inner request in origin form (GET /) read from a tunnel is first
\* rewritten to https://<CONNECT host><path>, that is what the handler is
\* given, the request sent upstream is the same method to
\* http://<CONNECT host><path>, and the response goes back chunked with
\* Connection: close.
C13_SslTrip ==
    \A k \in 1..Len(innerLog) :
        (innerLog[k].read # Malformed /\ OriginForm(innerLog[k].read.URL))
            => SslTripped(k)

\* The scenario itself: GET / through a tunnel to example.com went to the
\* handler as https://example.com/, upstream as GET http://example.com/, and
\* its response was written to the client.
C13_Witness ==
    /\ SslTripConfigured
    /\ rIn # Nil /\ rIn.Host = Example
    /\ \E k \in HeaderWritten :
           /\ innerLog[k].read = InnerRequest("GET", "", <<>>, <<"/">>, Example)
           /\ innerLog[k].reqTrace[1].in.URL
                  = [Scheme |-> "https", Host |-> Example, Path |-> <<"/">>]
           /\ innerLog[k].outbound # Nil
           /\ innerLog[k].outbound.req.Method = "GET"
           /\ innerLog[k].outbound.req.URL
                  = [Scheme |-> "http", Host |-> Example, Path |-> <<"/">>]
           /\ HeaderGet(innerLog[k].wrote[2].Header, "Transfer-Encoding") = "chunked"


\* C14: in the MITM loop an outbound request goes through the inner
\* session's round-tripper: the override a request handler put into the
\* context when there is one, the default transport only when there is
\* none; and when a handler made a response nothing is sent out.
C14_RoundTripperOverride ==
    \A k \in 1..Len(innerLog) :
        LET e == innerLog[k]
        IN /\ e.chainResp # Nil => e.outbound = Nil
           /\ e.outbound # Nil =>
                 e.outbound.via = IF e.ctx.RoundTripper # Nil
                                  THEN e.ctx.RoundTripper
                                  ELSE ProxyTr


\* A server with AlwaysMitm and some handlers, serving forward requests
\* while the goroutine of a MITM tunnel reads inner requests.
NextSessions ==
    \/ OnRequestHandleConnect(<<>>, "AlwaysMitm")
    \/ OnRequestDo(<<>>, "canned")
    \/ OnResponseDo(<<>>, "keep")
    \/ \E r0 \in {r \in ForwardRequests : r.Host = Example} :
           ServeHTTP(r0, FreshWriter(EmptyHeader))
    \/ filterRequestStep
    \/ ServeHTTPAfterRequestChain
    \/ filterResponseStep
    \/ ServeHTTPWrite
    \/ \E r0 \in MitmConnectRequests : handleHttps(r0, MitmWriter, TRUE)
    \/ handleHttpsStep
    \/ handleHttpsMitm(TRUE)
    \/ mitmHandshake(TRUE)
    \/ \E item \in {Malformed, InnerRequest("GET", "", <<>>, <<"/">>, Example)} :
           ClientSendsInner(item)
    \/ ClientEndsTls
    \/ mitmReadRequest
    \/ mitmFilterRequest
    \/ mitmRoundTrip(TRUE)
    \/ mitmWriteResponse(0)

SpecSessions == Init /\ [][NextSessions]_vars

\* C15: whatever the interleaving of forward requests, CONNECT requests and
\* MITM inner requests, every session context made has an id no other
\* session has, and the ids increase in the order the increments took
\* effect (the order of sessLog).
C15_SessionIdsUnique ==
    /\ \A a, b \in 1..Len(sessLog) : a < b => sessLog[a].id < sessLog[b].id
    /\ ctx # Nil => \E a \in 1..Len(sessLog) : sessLog[a].id = ctx.Session
    /\ (inner # Nil /\ inner.ctx # Nil) =>
          /\ \E a \in 1..Len(sessLog) :
                 sessLog[a] = [id |-> inner.ctx.Session, by |-> "mitm"]
          /\ inner.ctx.Session # inner.outer.Session
          /\ ctx # Nil => inner.ctx.Session # ctx.Session

\* A forward request got its id between a tunnel's CONNECT and an inner
\* request of that tunnel, while the tunnel's goroutine was running.
C15_Witness ==
    /\ Len(sessLog) >= 3
    /\ \E a \in 1..(Len(sessLog) - 2) :
           /\ sessLog[a].by = "handleHttps"
           /\ sessLog[a + 1].by = "ServeHTTP"
           /\ sessLog[a + 2].by = "mitm"
    /\ tasks["mitm"] \notin {"idle", "done", "panic"}


\* A server with AlwaysMitm and perhaps a certificate store, serving MITM
\* tunnels one after the other, whose clients send nothing.
NextTunnels ==
    \/ OnRequestHandleConnect(<<>>, "AlwaysMitm")
    \/ SetCertStore /\ UNCHANGED notCertVars
    \/ \E r0 \in MitmConnectRequests : handleHttps(r0, MitmWriter, TRUE)
    \/ handleHttpsStep
    \/ \E tlsOK \in BOOLEAN : handleHttpsMitm(tlsOK)
    \/ \E ok \in BOOLEAN : mitmHandshake(ok)
    \/ ClientEndsTls
    \/ mitmReadRequest

SpecTunnels == Init /\ [][NextTunnels]_vars

\* The generator calls for host h that returned a certificate.
GenSuccessesFor(h) == {k \in GenCallsFor(h) : genLog[k].err = NoError}

\* C18: on a server as NewProxyHttpServer made it (no CertStore assigned),
\* with AlwaysMitm, successive MITM CONNECTs to one hostname call the
\* certificate generator once: after a call has returned a certificate for
\* the hostname without port, no further call is made for it.
C18_DefaultServerCachesCert ==
    ~CertStore => \A h \in Hostnames : Cardinality(GenSuccessesFor(h)) <= 1


\* max_idle_per_host: MaxIdleConnsPerHost, or 2 when it is 0.
MaxIdlePerHost ==
    IF transport.MaxIdleConnsPerHost = 0 THEN 2 ELSE transport.MaxIdleConnsPerHost

\* C19: whenever putIdleConn adds a connection to the idle pool the
\* connection is not broken and the list under its cache key is then no
\* longer than max_idle_per_host; when keep-alives are disabled, max-idle is
\* negative, the connection is broken or the key's list is full, the
\* connection is not added and putIdleConn returns false.
C19_PutIdleConnPolicy ==
    lastPut # Nil =>
        LET refused == \/ transport.DisableKeepAlives
                       \/ transport.MaxIdleConnsPerHost < 0
                       \/ lastPut.wasBroken
                       \/ lastPut.lenBefore >= MaxIdlePerHost
        IN /\ lastPut.added =>
                 /\ ~lastPut.wasBroken
                 /\ Len(lastPut.listAfter) <= MaxIdlePerHost
                 /\ lastPut.listAfter[Len(lastPut.listAfter)] = lastPut.conn
                 /\ lastPut.ok
           /\ refused => (~lastPut.added /\ ~lastPut.ok)
           /\ lastPut.ok => lastPut.added

\* With the default limit, two connections of one key are idle and a third,
\* not broken, has just been refused.
C19_Witness ==
    /\ lastPut # Nil
    /\ transport = [DisableKeepAlives |-> FALSE, MaxIdleConnsPerHost |-> 0,
                    DisableCompression |-> FALSE]
    /\ ~lastPut.ok /\ ~lastPut.wasBroken
    /\ lastPut.lenBefore = 2
    /\ Len(idleConn.m[lastPut.key]) = 2


\* C21: a round trip on a freshly dialed connection whose upstream sends one
\* well-formed response returns that response to its caller in the end.
C21_RoundTripReturns ==
    \A k \in 1..MaxCalls :
        (/\ calls[k].pc = "await"
         /\ wire[calls[k].conn].rawIn # <<>>)
            ~> (calls[k].pc = "returned" /\ calls[k].res # Nil)


\* C23: the persistConn getConn returns for an https request reads and
\* writes through the TLS client session made in getConn: its reader and
\* writer wrap the TLS session, and no request goes out on the raw socket.
C23_HttpsThroughTls ==
    \A c \in 1..MaxConns :
        (pconns[c].made /\ wire[c].tls) =>
            /\ wire[c].bw = "tls"
            /\ wire[c].br = "tls"
            /\ wire[c].rawOut = <<>>


\* C24: handleHttps turns an error into an HTTP status response only when
\* nothing was written to the client yet: "502 Bad Gateway" is the first
\* thing on the socket wherever it appears, and never follows the
\* "HTTP/1.1 200 OK" of MITM mode.
C24_ErrorOnlyBeforeFirstByte ==
    proxyClient # Nil =>
        \A k \in 1..Len(proxyClient.out) :
            proxyClient.out[k] = "HTTP/1.1 502 Bad Gateway\r\n" =>
                /\ k = 1
                /\ \A j \in 1..(k - 1) : proxyClient.out[j] # MitmOK


\* ServeHTTP has left filterResponse.
ResponseChainOver ==
    \/ pc \in {"returned:500", "returned:copied", "panic:nilRequest"}
    \/ pc = "filterResponse" /\ i > Len(respHandlers)

\* C25: whatever response enters the response chain (a nil one too),
\* filterResponse calls every registered response handler once, in
\* registration order, each with the response its predecessor returned,
\* with ctx.Resp set to that input before the call, and returns what the
\* last one returned.
C25_ResponseChainComplete ==
    /\ \A k \in 1..Len(respTrace) :
          /\ respTrace[k].idx = k
          /\ respTrace[k].ctxResp = respTrace[k].in
          /\ k > 1 => respTrace[k].in = respTrace[k - 1].resp
    /\ respTrace # <<>> =>
          IF respTrace[1].in = Nil THEN origBody = 0
          ELSE respTrace[1].in.Body.id = origBody
    /\ pc = "filterResponse" =>
          /\ Len(respTrace) = i - 1
          /\ respTrace # <<>> => resp = respTrace[Len(respTrace)].resp
    /\ ResponseChainOver => Len(respTrace) = Len(respHandlers)

\* A nil response entered a chain of two handlers; the first made a
\* response, the second was called with it, and ServeHTTP went on.
C25_Witness ==
    /\ Len(respHandlers) = 2 /\ Len(respTrace) = 2
    /\ respTrace[1].in = Nil
    /\ respTrace[1].resp # Nil
    /\ respTrace[2].in = respTrace[1].resp
    /\ pc = "returned:copied"


\* A server with request, response and CONNECT handlers registered under
\* conditions, serving forward requests and the handler loop of CONNECTs.
NextDispatch ==
    \/ \E c \in CondChoices, k \in {"pass", "canned"} : OnRequestDo(c, k)
    \/ \E c \in CondChoices, k \in {"keep", "fresh"} : OnResponseDo(c, k)
    \/ \E c \in ConnectCondChoices, k \in {"AlwaysMitm", "decline"} :
           OnRequestHandleConnect(c, k)
    \/ \E r0 \in ForwardRequests : ServeHTTP(r0, FreshWriter(EmptyHeader))
    \/ filterRequestStep
    \/ ServeHTTPAfterRequestChain
    \/ filterResponseStep
    \/ ServeHTTPWrite
    \/ \E r0 \in ConnectRequests : handleHttps(r0, MitmWriter, TRUE)
    \/ handleHttpsStep

SpecDispatch == Init /\ [][NextDispatch]_vars

\* Every condition of the list holds of request r.
AllHold(conds, r) == \A k \in 1..Len(conds) : r.URL.Host = conds[k].host

\* ServeHTTP is in or past its response chain (ctx is the forward session's).
InForwardSession == pc \in {"filterRequest", "filterResponse"} \cup Ended

\* C26: a handler registered under conditions is called only when every
\* condition holds (request conditions of the current request, or of
\* ctx.Req for CONNECT and response handlers); when one fails the input
\* passes through: the same request with a nil response, the same response,
\* or a nil action.
C26_ConditionsGuardHandlers ==
    /\ \A k \in 1..Len(reqTrace) :
          LET e == reqTrace[k]
              h == reqHandlers[e.idx]
          IN e.in # Nil =>
                IF AllHold(h.reqConds, e.in)
                THEN /\ e.req = e.in
                     /\ (e.resp # Nil) = (h.kind = "canned")
                ELSE e.req = e.in /\ e.resp = Nil /\ ~e.panic
    /\ InForwardSession =>
          \A k \in 1..Len(respTrace) :
              LET e == respTrace[k]
                  h == respHandlers[e.idx]
              IN IF AllHold(h.reqConds, ctx.Req) /\ AllHold(h.respConds, ctx.Req)
                 THEN (e.resp = e.in) = (h.kind = "keep")
                 ELSE e.resp = e.in
    /\ pc = "httpsHandlers" =>
          \A k \in 1..Len(connTrace) :
              LET e == connTrace[k]
                  h == httpsHandlers[e.idx]
              IN IF AllHold(h.reqConds, ctx.Req)
                 THEN (e.action # Nil) = (h.kind = "AlwaysMitm")
                 ELSE e.action = Nil /\ e.newhost = <<>>

\* A request handler that answers and a response handler that replaces the
\* response, both registered for reddit, were passed by on a request for
\* example.com: the request went on without a response and the response
\* chain handed on what it was given.
C26_Witness ==
    /\ pc = "returned:500"
    /\ rIn.URL.Host = Example
    /\ Len(reqTrace) = 1 /\ Len(respTrace) = 1
    /\ reqHandlers[1] = [reqConds |-> <<DstHostIs(Reddit)>>, kind |-> "canned"]
    /\ respHandlers[1].respConds = <<DstHostIs(Reddit)>>
    /\ respHandlers[1].kind = "fresh"
    /\ reqTrace[1].resp = Nil
    /\ respTrace[1].resp = Nil


\* The inner requests whose response was written whole.
Answered == {k \in 1..Len(innerLog) :
                 innerLog[k].final # Nil /\ innerLog[k].final.Request # Nil
                 /\ innerLog[k].whole /\ Len(innerLog[k].wrote) >= 3}

\* C27: in the MITM loop every inner request read from the TLS stream has a
\* context of its own whose session id is new (not the CONNECT session's
\* and not an earlier inner request's) and whose UserData is the outer
\* session's; once a response has been written, Connection: close in it
\* notwithstanding, the goroutine is back at the head of the loop with the
\* stream open, and what the client sends next is read as the next request.
C27_InnerSessions ==
    /\ [](inner # Nil =>
           /\ \A k \in 1..Len(innerLog) :
                 /\ innerLog[k].ctx.Session = innerLog[k].session
                 /\ innerLog[k].session # ctx.Session
                 /\ \A j \in 1..(k - 1) : innerLog[j].session # innerLog[k].session
                 /\ innerLog[k].ctx.UserData = ctx.UserData
           /\ (tasks["mitm"] = "loop" /\ Answered # {}) => ~rawClientTls.closed)
    /\ [][/\ tasks["mitm"] = "filterResponse" /\ tasks'["mitm"] \notin {"done", "panic"}
             => /\ tasks'["mitm"] = "loop"
                /\ Len(innerLog') \in Answered'
                /\ innerLog'[Len(innerLog')].wrote[2].Header["Connection"] = <<"close">>
          /\ tasks["mitm"] = "loop" /\ rawClientTls.in # <<>>
             /\ tasks'["mitm"] # "loop"
             => /\ Len(innerLog') = Len(innerLog) + 1
                /\ innerLog'[Len(innerLog')].read = Head(rawClientTls.in)]_vars

\* A tunnel whose CONNECT handler left UserData in the session: two inner
\* requests were read and answered on it, the second after the first's
\* response, and the goroutine waits for a third.
C27_Witness ==
    /\ inner # Nil
    /\ ctx.UserData = UserTag
    /\ Len(innerLog) = 2
    /\ Answered = {1, 2}
    /\ innerLog[2].ctx.UserData = UserTag
    /\ tasks["mitm"] = "loop"
    /\ ~rawClientTls.closed


\* The places of the list whose connection is not in the set broken.
Sound(list, broken) == {j \in 1..Len(list) : list[j] \notin broken}

\* C28: getIdleConn for a key returns the connection pooled last under the
\* key among those not broken and removes it together with the broken ones
\* pooled after it; with no unbroken connection under the key it returns
\* nil and the key's list is emptied; a returned connection is nowhere in
\* the pool, and the lists of the other keys are as they were.
C28_GetIdleConnLifo ==
    lastGet # Nil =>
        LET list == lastGet.before[lastGet.key]
            sound == Sound(list, lastGet.broken)
        IN /\ IF sound = {}
              THEN /\ lastGet.conn = 0
                   /\ lastGet.after[lastGet.key] = <<>>
              ELSE LET j == CHOOSE n \in sound : \A o \in sound : o <= n
                   IN /\ lastGet.conn = list[j]
                      /\ lastGet.after[lastGet.key] = SubSeq(list, 1, j - 1)
           /\ \A k \in CacheKeys \ {lastGet.key} : lastGet.after[k] = lastGet.before[k]
           /\ idleConn.m = lastGet.after
           /\ lastGet.conn # 0 => lastGet.conn \notin Pooled

\* Two connections were idle under one key and the one pooled last was
\* broken: the call dropped it and returned the older one, while a
\* connection idle under the other key stayed.
C28_Witness ==
    /\ lastGet # Nil
    /\ Len(lastGet.before[lastGet.key]) = 2
    /\ lastGet.before[lastGet.key][2] \in lastGet.broken
    /\ lastGet.conn = lastGet.before[lastGet.key][1]
    /\ lastGet.after[lastGet.key] = <<>>
    /\ \E k \in CacheKeys \ {lastGet.key} : lastGet.after[k] # <<>>


\* What connection c's writer has put out.
Written(c) == wire[c].rawOut \o wire[c].tlsOut

\* The caller of call k left Accept-Encoding out and compression is on.
GzipCase(k) ==
    ~transport.DisableCompression /\ HeaderGet(calls[k].Header, "Accept-Encoding") = ""

\* C31: with compression not disabled and no Accept-Encoding in the
\* caller's request, the request written to the upstream carries
\* Accept-Encoding: gzip, and the flag handed to the read loop with the
\* request is true in exactly that case.
C31_GzipAdvertised ==
    \A c \in 1..MaxConns :
        /\ \A j \in 1..Len(Written(c)) :
              GzipCase(Written(c)[j].req)
                  => HeaderGet(Written(c)[j].Header, "Accept-Encoding") = "gzip"
        /\ \A j \in 1..Len(wire[c].reqch) :
              wire[c].reqch[j].addedGzip = GzipCase(wire[c].reqch[j].req)


\* The calls that have raised connection c's count and not returned.
InProgress(c) == {k \in 1..MaxCalls : calls[k].conn = c /\ calls[k].pc = "await"}

\* C32: a connection's numExpectedResponses is the number of round trips
\* that have incremented it and not completed; it is 0 when no round trip
\* is in progress on the connection, a round trip that returned early on a
\* failed write included.
C32_ExpectedResponsesCounted ==
    \A c \in 1..MaxConns :
        wire[c].numExpectedResponses = Cardinality(InProgress(c))


\* The MITM server with a client that also sends OPTIONS *, whose URL does
\* not parse behind a CONNECT host with a port.
NextMitmExits ==
    \/ NextMitm
    \/ ClientSendsInner(AsteriskRequest)

SpecMitmExits == Init /\ [][NextMitmExits]_vars

\* The goroutine has ended, by return or by panic.
MitmExited == tasks["mitm"] \in {"done", "panic"}

\* C33: once the MITM goroutine has started, whichever way it ends (failed
\* handshake, failed read of an inner request, illegal URL, failed round
\* trip, failed write, end of the stream) the client's socket is closed;
\* and when the handshake fails no request or response handler has been
\* called and nothing has been written over TLS.
C33_MitmExitCloses ==
    /\ [](MitmExited => (proxyClient.closed /\ rawClientTls.closed))
    /\ [][(tasks["mitm"] = "handshake" /\ tasks'["mitm"] # "handshake")
            => \/ tasks'["mitm"] = "loop" /\ ~rawClientTls'.closed
               \/ /\ tasks'["mitm"] = "done"
                  /\ proxyClient'.closed
                  /\ innerLog' = <<>>
                  /\ rawClientTls'.out = <<>>]_vars
    /\ []((MitmExited /\ innerLog = <<>>) => rawClientTls.out = <<>>)

\* After one answered request the client sent OPTIONS * through a tunnel
\* to example.com:443: the URL did not parse, no handler made a response,
\* and the goroutine returned with the socket closed.
C33_Witness ==
    /\ tasks["mitm"] = "done"
    /\ inner # Nil /\ inner.err = "parse"
    /\ Len(innerLog) = 2
    /\ innerLog[1].wrote # <<>>
    /\ innerLog[2].read = AsteriskRequest
    /\ innerLog[2].url = Nil
    /\ innerLog[2].wrote = <<>>
    /\ proxyClient.closed


\* The response chain of the inner request at hand ran and left no response.
NullResponseLeft ==
    /\ innerLog # <<>>
    /\ innerLog[Len(innerLog)].respTrace # <<>>
    /\ innerLog[Len(innerLog)].final = Nil
    /\ inner.resp = Nil

\* C34: in the MITM loop a nil response is never dereferenced: when the
\* response chain leaves nil (a response handler returned nil) the
\* goroutine ends or reports an error, it does not panic.
C34_NullResponseNoCrash ==
    (inner # Nil /\ NullResponseLeft) => tasks["mitm"] # "panic"


\* C35: whenever the Accept case has written "200 Connection established"
\* to the client both relay goroutines are started, whether or not the
\* hijacked socket and the dialed connection can be half-closed.
C35_AcceptStartsRelay ==
    (/\ pc = "returned:accepted"
     /\ proxyClient.out # <<>>
     /\ proxyClient.out[Len(proxyClient.out)] = Established)
        => (tasks["up"] # "idle" /\ tasks["down"] # "idle")

====
